---- MODULE Spec2Model ----
(***************************************************************************)
(* A model of the domino_oracle inference core: the tile catalog           *)
(* (tiles.py), the game state machine (game_state.py), the constraint      *)
(* propagation engine (constraints.py), the marginal inference            *)
(* (inference.py) and the OracleState integration type (engine.py).       *)
(*                                                                         *)
(* Python values are modelled as follows: a Tile is the pair <<a, b>>; a   *)
(* frozenset is a set; a tuple is a sequence (Python index i is TLA+ index *)
(* i + 1); a frozen dataclass is a record; None is the empty tuple; a      *)
(* raised exception is a record [exception, why] returned in place of the  *)
(* value; a probability (a count divided by a total) is the fraction       *)
(* <<numerator, denominator>> in lowest terms; an optional integer         *)
(* (int | None) is None or the one-tuple of the integer.                   *)
(***************************************************************************)
EXTENDS Integers, Sequences, FiniteSets, TLC

VARIABLES
    gs,      \* a GameState driven directly through GameState.apply_action
    os,      \* an OracleState driven through OracleState.apply_action
    call,    \* the last call made: [op, arg]
    raised,  \* None when the last call returned, else the exception it raised
    active,  \* the seats that play (rather than pass) in the long-game runs
    cs,      \* a ConstraintSet driven directly through its own methods
    pt,      \* what the last marginals call on cs returned or raised
    ncalls,  \* the number of apply_play / apply_pass calls made on cs
    cache,   \* the lru_cache of suits: its entries, least recently used first
    deal     \* the opponents' dealt hands, by seat value, in the dealt games

vars == <<gs, os, call, raised, active, cs, pt, ncalls, cache, deal>>

None == <<>>

Raise(type, why) == [exception |-> type, why |-> why]

IsError(r) == r # None /\ "exception" \in DOMAIN r

(***************************************************************************)
(* Bounds of the model.                                                    *)
(***************************************************************************)
\* longest history explored with every input tried at every step
MaxHistory == 4
\* longest history explored in the long-game runs
MaxDeep == 29
\* most apply_play / apply_pass calls made on a ConstraintSet.initial
MaxCalls == 2
\* most apply_play / apply_pass calls after which marginals are computed
MaxQueried == 1
\* largest remaining count of an opponent in a small constraint set
MaxRemaining == 2
\* most trials of one monte_carlo_marginals call
MaxSamples == 2
\* most unknown tiles for which every shuffle order is tried
MaxShuffled == 2
\* most unknown tiles on which exact_marginals is run whatever the candidate
\* sets are, and whose assignments are enumerated one by one
MaxEnumerated == 4
\* most candidates of an opponent with which exact_marginals is run on more
\* unknown tiles than that
MaxPool == 7
\* largest seed given to compute_probabilities
MaxSeed == 3

(***************************************************************************)
(* tiles.py                                                                *)
(***************************************************************************)
Pips == 0..6

Tile(a, b) == <<a, b>>

values(tile) == <<tile[1], tile[2]>>

contains_value(tile, v) == tile[1] = v \/ tile[2] = v

other_value(tile, v) ==
    IF v = tile[1] THEN tile[2]
    ELSE IF v = tile[2] THEN tile[1]
    ELSE Raise("ValueError", "value not in tile")

generate_full_set == {t \in Pips \X Pips : t[1] <= t[2]}

\* suits, had it looked at the first pip only
suits_FirstPipOnly(value) ==
    IF ~(0 <= value /\ value <= 6)
    THEN Raise("ValueError", "Invalid suit value")
    ELSE {tile \in generate_full_set : tile[1] = value}

\* the function that lru_cache wraps
suits(value) ==
    IF ~(0 <= value /\ value <= 6)
    THEN Raise("ValueError", "Invalid suit value")
    ELSE {tile \in generate_full_set : contains_value(tile, value)}

(***************************************************************************)
(* game_state.py                                                           *)
(***************************************************************************)
SOUTH == [enum |-> "game_state.Player", name |-> "SOUTH", value |-> 0]
WEST  == [enum |-> "game_state.Player", name |-> "WEST",  value |-> 1]
NORTH == [enum |-> "game_state.Player", name |-> "NORTH", value |-> 2]
EAST  == [enum |-> "game_state.Player", name |-> "EAST",  value |-> 3]

Player == {SOUTH, WEST, NORTH, EAST}

\* Player(value): the member of the enum with that value
PlayerOfValue(v) == CHOOSE p \in Player : p.value = v

Play(player, tile, end) ==
    [type |-> "Play", player |-> player, tile |-> tile, end |-> end]

Pass(player) == [type |-> "Pass", player |-> player]

\* next_player wrapping one seat early
next_player_ModThree(player) == PlayerOfValue((player.value + 1) % 3)

next_player(player) == PlayerOfValue((player.value + 1) % 4)

\* GameState.initial without the catalog-membership check
GameState_initial_NoCatalogCheck(my_hand) ==
    IF Cardinality(my_hand) # 7
    THEN Raise("ValueError", "Hand must contain exactly 7 tiles")
    ELSE [all_tiles       |-> generate_full_set,
          my_hand         |-> my_hand,
          history         |-> <<>>,
          open_ends       |-> None,
          played_tiles    |-> {},
          current_player  |-> SOUTH,
          tiles_remaining |-> <<7, 7, 7, 7>>]

\* GameState.initial giving the opening move to WEST
GameState_initial_WestOpens(my_hand) ==
    LET full_set == generate_full_set IN
    IF Cardinality(my_hand) # 7
    THEN Raise("ValueError", "Hand must contain exactly 7 tiles")
    ELSE IF ~(my_hand \subseteq full_set)
    THEN Raise("ValueError", "Hand contains tiles not in the standard domino set")
    ELSE [all_tiles       |-> full_set,
          my_hand         |-> my_hand,
          history         |-> <<>>,
          open_ends       |-> None,
          played_tiles    |-> {},
          current_player  |-> WEST,
          tiles_remaining |-> <<7, 7, 7, 7>>]

GameState_initial(my_hand) ==
    LET full_set == generate_full_set IN
    IF Cardinality(my_hand) # 7
    THEN Raise("ValueError", "Hand must contain exactly 7 tiles")
    ELSE IF ~(my_hand \subseteq full_set)
    THEN Raise("ValueError", "Hand contains tiles not in the standard domino set")
    ELSE [all_tiles       |-> full_set,
          my_hand         |-> my_hand,
          history         |-> <<>>,
          open_ends       |-> None,
          played_tiles    |-> {},
          current_player  |-> SOUTH,
          tiles_remaining |-> <<7, 7, 7, 7>>]

\* the checks of _apply_play without the already-played check
play_error_NoPlayedCheck(self, tile, end) ==
    IF ~contains_value(tile, end)
    THEN Raise("ValueError", "Tile does not contain the declared end value")
    ELSE IF self.open_ends # None
            /\ end \notin {self.open_ends[1], self.open_ends[2]}
    THEN Raise("ValueError", "End value does not match either open end")
    ELSE None

\* the three validity checks of _apply_play: the exception raised, or None
play_error(self, tile, end) ==
    IF ~contains_value(tile, end)
    THEN Raise("ValueError", "Tile does not contain the declared end value")
    ELSE IF tile \in self.played_tiles
    THEN Raise("ValueError", "Tile has already been played")
    ELSE IF self.open_ends # None
            /\ end \notin {self.open_ends[1], self.open_ends[2]}
    THEN Raise("ValueError", "End value does not match either open end")
    ELSE None

\* new_open_ends testing the right end first
play_open_ends_RightFirst(self, tile, end) ==
    IF self.open_ends = None
    THEN values(tile)
    ELSE LET new_value == other_value(tile, end)
             left      == self.open_ends[1]
             right     == self.open_ends[2]
         IN IF right = end
            THEN <<left, new_value>>
            ELSE <<new_value, right>>

\* new_open_ends of _apply_play, for a play that passed the checks
play_open_ends(self, tile, end) ==
    IF self.open_ends = None
    THEN values(tile)
    ELSE LET new_value == other_value(tile, end)
             left      == self.open_ends[1]
             right     == self.open_ends[2]
         IN IF left = end
            THEN <<new_value, right>>
            ELSE <<left, new_value>>

\* new_hand removing the tile whoever plays it
play_hand_AnyPlayer(self, play) ==
    self.my_hand \ {play.tile}

\* new_hand of _apply_play
play_hand(self, play) ==
    IF play.player = SOUTH
    THEN self.my_hand \ {play.tile}
    ELSE self.my_hand

\* play_remaining counting the observer's plays only
play_remaining_ObserverOnly(self, play) ==
    IF play.player = SOUTH
    THEN [self.tiles_remaining EXCEPT ![play.player.value + 1] = @ - 1]
    ELSE self.tiles_remaining

\* new_remaining of _apply_play
play_remaining(self, play) ==
    [self.tiles_remaining EXCEPT ![play.player.value + 1] = @ - 1]

GameState_apply_play(self, play) ==
    LET tile == play.tile
        end  == play.end
    IN
    IF play_error(self, tile, end) # None
    THEN play_error(self, tile, end)
    ELSE [all_tiles       |-> self.all_tiles,
          my_hand         |-> play_hand(self, play),
          history         |-> Append(self.history, play),
          open_ends       |-> play_open_ends(self, tile, end),
          played_tiles    |-> self.played_tiles \cup {tile},
          current_player  |-> next_player(self.current_player),
          tiles_remaining |-> play_remaining(self, play)]

\* _apply_pass without the first-turn check
GameState_apply_pass_NoFirstTurnCheck(self, pass_action) ==
    [all_tiles       |-> self.all_tiles,
     my_hand         |-> self.my_hand,
     history         |-> Append(self.history, pass_action),
     open_ends       |-> self.open_ends,
     played_tiles    |-> self.played_tiles,
     current_player  |-> next_player(self.current_player),
     tiles_remaining |-> self.tiles_remaining]

GameState_apply_pass(self, pass_action) ==
    IF self.open_ends = None
    THEN Raise("ValueError", "Cannot pass on the first turn")
    ELSE [all_tiles       |-> self.all_tiles,
          my_hand         |-> self.my_hand,
          history         |-> Append(self.history, pass_action),
          open_ends       |-> self.open_ends,
          played_tiles    |-> self.played_tiles,
          current_player  |-> next_player(self.current_player),
          tiles_remaining |-> self.tiles_remaining]

\* apply_action checking the turn for a Play only
GameState_apply_action_TurnCheckedForPlayOnly(self, action) ==
    IF action.type = "Play" /\ action.player # self.current_player
    THEN Raise("ValueError", "wrong turn")
    ELSE IF action.type = "Play"
    THEN GameState_apply_play(self, action)
    ELSE GameState_apply_pass(self, action)

GameState_apply_action(self, action) ==
    IF action.player # self.current_player
    THEN Raise("ValueError", "wrong turn")
    ELSE IF action.type = "Play"
    THEN GameState_apply_play(self, action)
    ELSE GameState_apply_pass(self, action)

GameState_unknown_tiles(self) ==
    (self.all_tiles \ self.my_hand) \ self.played_tiles

\* history[-4:], the last four elements (all of them when there are fewer)
LastFour(history) ==
    SubSeq(history, IF Len(history) > 4 THEN Len(history) - 3 ELSE 1, Len(history))

\* is_game_over looking at the last three actions only
is_game_over_LastThree(self) ==
    IF \E i \in 1..Len(self.tiles_remaining) : self.tiles_remaining[i] = 0
    THEN TRUE
    ELSE IF Len(self.history) >= 3
            /\ \A i \in 1..3 :
                   self.history[Len(self.history) + 1 - i].type = "Pass"
    THEN TRUE
    ELSE FALSE

is_game_over(self) ==
    IF \E i \in 1..Len(self.tiles_remaining) : self.tiles_remaining[i] = 0
    THEN TRUE
    ELSE IF Len(self.history) >= 4
            /\ \A i \in 1..Len(LastFour(self.history)) :
                   LastFour(self.history)[i].type = "Pass"
    THEN TRUE
    ELSE FALSE

(***************************************************************************)
(* constraints.py.  This module declares its own Player enum: its members  *)
(* are distinct objects from, and compare unequal to, the members of       *)
(* game_state.Player that carry the same names and values.                 *)
(***************************************************************************)
C_SOUTH == [enum |-> "constraints.Player", name |-> "SOUTH", value |-> 0]
C_WEST  == [enum |-> "constraints.Player", name |-> "WEST",  value |-> 1]
C_NORTH == [enum |-> "constraints.Player", name |-> "NORTH", value |-> 2]
C_EAST  == [enum |-> "constraints.Player", name |-> "EAST",  value |-> 3]

OPPONENTS == <<C_WEST, C_NORTH, C_EAST>>

tiles_with_value(tiles, value) ==
    {t \in tiles : t[1] = value \/ t[2] = value}

PlayerConstraints(candidate_tiles, tiles_remaining, eliminated_values) ==
    [candidate_tiles   |-> candidate_tiles,
     tiles_remaining   |-> tiles_remaining,
     eliminated_values |-> eliminated_values]

remove_tile(self, tile) ==
    PlayerConstraints(self.candidate_tiles \ {tile},
                      self.tiles_remaining,
                      self.eliminated_values)

decrement_remaining(self) ==
    PlayerConstraints(self.candidate_tiles,
                      self.tiles_remaining - 1,
                      self.eliminated_values)

\* eliminate_value recording the value without removing the tiles that hold it
eliminate_value_RecordOnly(self, value) ==
    PlayerConstraints(self.candidate_tiles,
                      self.tiles_remaining,
                      self.eliminated_values \cup {value})

eliminate_value(self, value) ==
    LET bad_tiles == tiles_with_value(self.candidate_tiles, value) IN
    PlayerConstraints(self.candidate_tiles \ bad_tiles,
                      self.tiles_remaining,
                      self.eliminated_values \cup {value})

\* set_candidates taking the remaining count from the new candidate set
set_candidates_CountFollows(self, new_candidates) ==
    PlayerConstraints(new_candidates,
                      Cardinality(new_candidates),
                      self.eliminated_values)

set_candidates(self, new_candidates) ==
    PlayerConstraints(new_candidates,
                      self.tiles_remaining,
                      self.eliminated_values)

ConstraintSet(player_constraints, played_tiles, my_hand) ==
    [player_constraints |-> player_constraints,
     played_tiles       |-> played_tiles,
     my_hand            |-> my_hand]

\* ConstraintSet.initial giving every opponent the whole catalog as candidates
ConstraintSet_initial_WholeCatalog(my_hand) ==
    IF Cardinality(my_hand) # 7
    THEN Raise("ValueError", "Hand must contain exactly 7 tiles")
    ELSE LET full == generate_full_set IN
    IF ~(my_hand \subseteq full)
    THEN Raise("ValueError", "Hand contains invalid tiles")
    ELSE
    ConstraintSet(
        [p \in {OPPONENTS[i] : i \in 1..Len(OPPONENTS)} |->
            PlayerConstraints(full, 7, {})],
        {},
        my_hand)

ConstraintSet_initial(my_hand) ==
    IF Cardinality(my_hand) # 7
    THEN Raise("ValueError", "Hand must contain exactly 7 tiles")
    ELSE LET full == generate_full_set IN
    IF ~(my_hand \subseteq full)
    THEN Raise("ValueError", "Hand contains invalid tiles")
    ELSE LET unknown == full \ my_hand IN
    ConstraintSet(
        [p \in {OPPONENTS[i] : i \in 1..Len(OPPONENTS)} |->
            PlayerConstraints(unknown, 7, {})],
        {},
        my_hand)

get_candidates(self, player) ==
    IF player \in DOMAIN self.player_constraints
    THEN self.player_constraints[player].candidate_tiles
    ELSE Raise("KeyError", player.name)

ConstraintSet_unknown_tiles(self) ==
    (generate_full_set \ self.played_tiles) \ self.my_hand

\* propagate_others taking the determined tiles from the determined player too
RECURSIVE propagate_others_SelfToo(_, _, _, _)
propagate_others_SelfToo(st, p, determined, j) ==
    IF j > Len(OPPONENTS) THEN st
    ELSE LET q         == OPPONENTS[j]
             old_cands == st.pc[q].candidate_tiles
             new_cands == old_cands \ determined
         IN IF new_cands # old_cands
            THEN propagate_others_SelfToo(
                     [pc      |-> [st.pc EXCEPT ![q] = set_candidates(@, new_cands)],
                      changed |-> TRUE],
                     p, determined, j + 1)
            ELSE propagate_others_SelfToo(st, p, determined, j + 1)

\* propagate_others reporting a change for every other player, changed or not
RECURSIVE propagate_others_AlwaysChanged(_, _, _, _)
propagate_others_AlwaysChanged(st, p, determined, j) ==
    IF j > Len(OPPONENTS) THEN st
    ELSE LET q         == OPPONENTS[j]
             old_cands == st.pc[q].candidate_tiles
             new_cands == old_cands \ determined
         IN IF q # p
            THEN propagate_others_AlwaysChanged(
                     [pc      |-> [st.pc EXCEPT ![q] = set_candidates(@, new_cands)],
                      changed |-> TRUE],
                     p, determined, j + 1)
            ELSE propagate_others_AlwaysChanged(st, p, determined, j + 1)

\* the body of "for q in OPPONENTS" inside Rule 1, from position j on
RECURSIVE propagate_others(_, _, _, _)
propagate_others(st, p, determined, j) ==
    IF j > Len(OPPONENTS) THEN st
    ELSE LET q         == OPPONENTS[j]
             old_cands == st.pc[q].candidate_tiles
             new_cands == old_cands \ determined
         IN IF q # p /\ new_cands # old_cands
            THEN propagate_others(
                     [pc      |-> [st.pc EXCEPT ![q] = set_candidates(@, new_cands)],
                      changed |-> TRUE],
                     p, determined, j + 1)
            ELSE propagate_others(st, p, determined, j + 1)

\* Rule 1 applied to a player one candidate short of being determined as well
RECURSIVE propagate_rule1_OneShort(_, _)
propagate_rule1_OneShort(st, i) ==
    IF i > Len(OPPONENTS) THEN st
    ELSE LET p  == OPPONENTS[i]
             cp == st.pc[p]
         IN IF Cardinality(cp.candidate_tiles) <= cp.tiles_remaining + 1
            THEN propagate_rule1_OneShort(
                     propagate_others(st, p, cp.candidate_tiles, 1), i + 1)
            ELSE propagate_rule1_OneShort(st, i + 1)

\* the body of "for p in OPPONENTS" (Rule 1), from position i on
RECURSIVE propagate_rule1(_, _)
propagate_rule1(st, i) ==
    IF i > Len(OPPONENTS) THEN st
    ELSE LET p  == OPPONENTS[i]
             cp == st.pc[p]
         IN IF Cardinality(cp.candidate_tiles) = cp.tiles_remaining
            THEN propagate_rule1(
                     propagate_others(st, p, cp.candidate_tiles, 1), i + 1)
            ELSE propagate_rule1(st, i + 1)

\* "for _ in range(max_iterations)" with n iterations left.  Rule 2 only
\* computes the holders of each unknown tile and changes nothing.
RECURSIVE propagate_loop(_, _)
propagate_loop(pc, n) ==
    IF n = 0 THEN pc
    ELSE LET st == propagate_rule1([pc |-> pc, changed |-> FALSE], 1) IN
         IF ~st.changed THEN st.pc
         ELSE propagate_loop(st.pc, n - 1)

\* propagate stopping after its first round
propagate_OneRound(self) ==
    ConstraintSet(propagate_loop(self.player_constraints, 1),
                  self.played_tiles,
                  self.my_hand)

propagate(self) ==
    ConstraintSet(propagate_loop(self.player_constraints, 50),
                  self.played_tiles,
                  self.my_hand)

\* a play that leaves the played tile in the candidate sets
remove_from_all_Nothing(pc, tile) ==
    pc

\* "for p in OPPONENTS: new_pc[p] = new_pc[p].remove_tile(tile)"
remove_from_all(pc, tile) ==
    [p \in DOMAIN pc |-> remove_tile(pc[p], tile)]

\* ConstraintSet.apply_play taking the tile out of the hand copy whoever plays
ConstraintSet_apply_play_HandOfAnyPlayer(self, player, tile) ==
    LET removed == remove_from_all(self.player_constraints, tile)
        new_pc  ==
            IF player \in DOMAIN removed
            THEN [removed EXCEPT ![player] = decrement_remaining(@)]
            ELSE removed
        new_cs  ==
            ConstraintSet(new_pc,
                          self.played_tiles \cup {tile},
                          self.my_hand \ {tile})
    IN propagate(new_cs)

ConstraintSet_apply_play(self, player, tile) ==
    LET removed == remove_from_all(self.player_constraints, tile)
        new_pc  ==
            IF player \in DOMAIN removed
            THEN [removed EXCEPT ![player] = decrement_remaining(@)]
            ELSE removed
        new_cs  ==
            ConstraintSet(new_pc,
                          self.played_tiles \cup {tile},
                          IF player # C_SOUTH
                          THEN self.my_hand
                          ELSE self.my_hand \ {tile})
    IN propagate(new_cs)

\* ConstraintSet.apply_pass eliminating the first open end only
ConstraintSet_apply_pass_FirstEndOnly(self, player, open_ends) ==
    IF player \notin DOMAIN self.player_constraints
    THEN Raise("KeyError", player.name)
    ELSE
    LET end_a == open_ends[1]
        pc1   == eliminate_value(self.player_constraints[player], end_a)
        new_pc == [self.player_constraints EXCEPT ![player] = pc1]
    IN propagate(ConstraintSet(new_pc, self.played_tiles, self.my_hand))

ConstraintSet_apply_pass(self, player, open_ends) ==
    IF player \notin DOMAIN self.player_constraints
    THEN Raise("KeyError", player.name)
    ELSE
    LET end_a == open_ends[1]
        end_b == open_ends[2]
        pc1   == eliminate_value(self.player_constraints[player], end_a)
        pc2   == IF end_b # end_a THEN eliminate_value(pc1, end_b) ELSE pc1
        new_pc == [self.player_constraints EXCEPT ![player] = pc2]
    IN propagate(ConstraintSet(new_pc, self.played_tiles, self.my_hand))

(***************************************************************************)
(* inference.py.  Tile and player indices are 0-based as in the source:    *)
(* tile index ti stands for unknown_list[ti + 1], player index pi for      *)
(* players[pi + 1].  counts and probs are functions pi -> ti -> value.     *)
(***************************************************************************)
EXACT_THRESHOLD == 15

RECURSIVE GCD(_, _)
GCD(a, b) == IF b = 0 THEN a ELSE GCD(b, a % b)

\* count / total
Frac(count, total) ==
    <<count \div GCD(count, total), total \div GCD(count, total)>>

ProbabilityTable(tiles, players, probs) ==
    [tiles |-> tiles, players |-> players, probs |-> probs]

\* _build_probability_table without the check of the total
build_probability_table_NoTotalCheck(tiles, players, counts, total) ==
    ProbabilityTable(
        tiles, players,
        [pi \in DOMAIN counts |->
            [ti \in DOMAIN counts[pi] |->
                IF total = 0 THEN <<0, 1>> ELSE Frac(counts[pi][ti], total)]])

build_probability_table(tiles, players, counts, total) ==
    IF total = 0
    THEN Raise("ValueError",
               "No valid configurations found; constraints may be inconsistent")
    ELSE ProbabilityTable(
             tiles, players,
             [pi \in DOMAIN counts |->
                 [ti \in DOMAIN counts[pi] |-> Frac(counts[pi][ti], total)]])

\* the order of tiles: by a, then by b
TileLess(x, y) == x[1] < y[1] \/ (x[1] = y[1] /\ x[2] < y[2])

\* the tiles of S in ascending order
RECURSIVE sort_tiles(_)
sort_tiles(S) ==
    IF S = {} THEN <<>>
    ELSE LET m == CHOOSE x \in S : \A y \in S \ {x} : TileLess(x, y)
         IN <<m>> \o sort_tiles(S \ {m})

\* the catalog in ascending order
sorted_full_set == sort_tiles(generate_full_set)

\* sorted(unknown_set): the unknown tiles are catalog tiles, so they come in
\* the order they have in the sorted catalog
sorted(unknown_set) ==
    SelectSeq(sorted_full_set, LAMBDA t : t \in unknown_set)

\* "[constraints.player_constraints[p].tiles_remaining for p in players]"
remaining_of(constraints, players) ==
    [pi \in 0..(Len(players) - 1) |->
        constraints.player_constraints[players[pi + 1]].tiles_remaining]

\* candidate_indices_of, had it offered every unknown tile to every player
candidate_indices_of_EveryTile(constraints, players, unknown_list) ==
    [pi \in 0..(Len(players) - 1) |-> 0..(Len(unknown_list) - 1)]

\* "{tile_index[t] for t in cands if t in tile_index}" for every player
candidate_indices_of(constraints, players, unknown_list) ==
    [pi \in 0..(Len(players) - 1) |->
        {ti \in 0..(Len(unknown_list) - 1) :
            unknown_list[ti + 1] \in get_candidates(constraints, players[pi + 1])}]

\* a slice bound as Python normalises it for a sequence of length n
PyBound(i, n) ==
    IF i < 0 THEN (IF i + n < 0 THEN 0 ELSE i + n)
    ELSE IF i > n THEN n ELSE i

\* indices[lo : hi]
PySlice(indices, lo, hi) ==
    LET a == PyBound(lo, Len(indices))
        b == PyBound(hi, Len(indices))
    IN IF a >= b THEN <<>> ELSE SubSeq(indices, a + 1, b)

\* "for pi, r in enumerate(remaining)" of one trial, from player pi on
RECURSIVE mc_assign(_, _, _, _, _, _)
mc_assign(indices, remaining, candidate_masks, pi, offset, assignment) ==
    IF pi \notin DOMAIN remaining
    THEN [valid |-> TRUE, offset |-> offset, assignment |-> assignment]
    ELSE LET r            == remaining[pi]
             player_tiles == PySlice(indices, offset, offset + r)
         IN IF ~(\A k \in 1..Len(player_tiles) :
                     player_tiles[k] \in candidate_masks[pi])
            THEN [valid |-> FALSE, offset |-> offset, assignment |-> assignment]
            ELSE mc_assign(indices, remaining, candidate_masks, pi + 1,
                           offset + r, Append(assignment, player_tiles))

\* a trial accepted whether or not its slices cover all the unknown tiles
mc_trial_NoCoverCheck(st, indices, remaining, candidate_masks, n_tiles) ==
    LET a == mc_assign(indices, remaining, candidate_masks, 0, 0, <<>>) IN
    IF ~a.valid THEN st
    ELSE [accepted |-> st.accepted + 1,
          counts   |->
              [pi \in DOMAIN st.counts |->
                  [ti \in DOMAIN st.counts[pi] |->
                      st.counts[pi][ti]
                          + Cardinality({k \in 1..Len(a.assignment[pi + 1]) :
                                            a.assignment[pi + 1][k] = ti})]]]

\* one trial: the counters after the trial whose shuffle gave `indices`
mc_trial(st, indices, remaining, candidate_masks, n_tiles) ==
    LET a == mc_assign(indices, remaining, candidate_masks, 0, 0, <<>>) IN
    IF ~a.valid THEN st
    ELSE IF a.offset # n_tiles THEN st
    ELSE [accepted |-> st.accepted + 1,
          counts   |->
              [pi \in DOMAIN st.counts |->
                  [ti \in DOMAIN st.counts[pi] |->
                      st.counts[pi][ti]
                          + Cardinality({k \in 1..Len(a.assignment[pi + 1]) :
                                            a.assignment[pi + 1][k] = ti})]]]

\* "for _ in range(n_samples)", from trial k on
RECURSIVE mc_trials(_, _, _, _, _, _, _)
mc_trials(st, k, n_samples, shuffles, remaining, candidate_masks, n_tiles) ==
    IF k > n_samples THEN st
    ELSE mc_trials(mc_trial(st, shuffles[k], remaining, candidate_masks, n_tiles),
                   k + 1, n_samples, shuffles, remaining, candidate_masks, n_tiles)

\* monte_carlo_marginals, had it divided by the number of attempted trials
monte_carlo_marginals_PerAttempt(constraints, n_samples, shuffles) ==
    LET players         == OPPONENTS
        unknown_list    == sorted(ConstraintSet_unknown_tiles(constraints))
        n_tiles         == Len(unknown_list)
        n_players       == Len(players)
        remaining       == remaining_of(constraints, players)
        candidate_masks == candidate_indices_of(constraints, players, unknown_list)
        zeros           == [pi \in 0..(n_players - 1) |->
                               [ti \in 0..(n_tiles - 1) |-> 0]]
        st              == mc_trials([accepted |-> 0, counts |-> zeros], 1,
                                     n_samples, shuffles, remaining,
                                     candidate_masks, n_tiles)
    IN build_probability_table(unknown_list, players, st.counts,
                               IF st.accepted = 0 THEN 0 ELSE n_samples)

\* shuffles[k] is the order rng.shuffle leaves `indices` in at trial k
monte_carlo_marginals(constraints, n_samples, shuffles) ==
    LET players         == OPPONENTS
        unknown_list    == sorted(ConstraintSet_unknown_tiles(constraints))
        n_tiles         == Len(unknown_list)
        n_players       == Len(players)
        remaining       == remaining_of(constraints, players)
        candidate_masks == candidate_indices_of(constraints, players, unknown_list)
        zeros           == [pi \in 0..(n_players - 1) |->
                               [ti \in 0..(n_tiles - 1) |-> 0]]
        st              == mc_trials([accepted |-> 0, counts |-> zeros], 1,
                                     n_samples, shuffles, remaining,
                                     candidate_masks, n_tiles)
    IN build_probability_table(unknown_list, players, st.counts, st.accepted)

\* itertools.combinations(pool, r) of distinct indices, as sets
combinations(pool, r) == {c \in SUBSET pool : Cardinality(c) = r}

\* the enumeration, had it accepted any leftover of the right size
exact_accepted_AnyLeftover(remaining, candidate_indices, n_tiles) ==
    {cfg \in
        UNION {{<<set_0, set_1, (0..(n_tiles - 1)) \ (set_0 \cup set_1)>> :
                   set_1 \in
                       IF Cardinality(candidate_indices[1] \ set_0) < remaining[1]
                       THEN {}
                       ELSE combinations(candidate_indices[1] \ set_0, remaining[1])} :
               set_0 \in combinations(candidate_indices[0], remaining[0])} :
        Cardinality(cfg[3]) = remaining[2]}

\* the (set_0, set_1, leftover) triples that reach "total += 1"
exact_accepted(remaining, candidate_indices, n_tiles) ==
    {cfg \in
        UNION {{<<set_0, set_1, (0..(n_tiles - 1)) \ (set_0 \cup set_1)>> :
                   set_1 \in
                       IF Cardinality(candidate_indices[1] \ set_0) < remaining[1]
                       THEN {}
                       ELSE combinations(candidate_indices[1] \ set_0, remaining[1])} :
               set_0 \in combinations(candidate_indices[0], remaining[0])} :
        /\ Cardinality(cfg[3]) = remaining[2]
        /\ cfg[3] \subseteq candidate_indices[2]}

exact_marginals(constraints) ==
    LET unknown_set == ConstraintSet_unknown_tiles(constraints) IN
    IF Cardinality(unknown_set) > 18
    THEN Raise("ValueError", "Too many unknown tiles")
    ELSE
    LET players           == OPPONENTS
        unknown_list      == sorted(unknown_set)
        n_tiles           == Len(unknown_list)
        n_players         == Len(players)
        remaining         == remaining_of(constraints, players)
        candidate_indices == candidate_indices_of(constraints, players, unknown_list)
    IN
    \* itertools.combinations rejects a negative r
    IF \/ remaining[0] < 0
       \/ /\ remaining[1] < 0
          /\ combinations(candidate_indices[0], remaining[0]) # {}
    THEN Raise("ValueError", "r must be non-negative")
    ELSE
    LET accepted == exact_accepted(remaining, candidate_indices, n_tiles)
        counts   == [pi \in 0..(n_players - 1) |->
                        [ti \in 0..(n_tiles - 1) |->
                            Cardinality({cfg \in accepted : ti \in cfg[pi + 1]})]]
    IN build_probability_table(unknown_list, players, counts,
                               Cardinality(accepted))

\* auto_marginals, had it enumerated up to the ceiling of exact_marginals
auto_marginals_ExactUpToCeiling(constraints, mc_samples, shuffles) ==
    LET n_unknown == Cardinality(ConstraintSet_unknown_tiles(constraints)) IN
    IF n_unknown <= 18
    THEN exact_marginals(constraints)
    ELSE monte_carlo_marginals(constraints, mc_samples, shuffles)

auto_marginals(constraints, mc_samples, shuffles) ==
    LET n_unknown == Cardinality(ConstraintSet_unknown_tiles(constraints)) IN
    IF n_unknown <= EXACT_THRESHOLD
    THEN exact_marginals(constraints)
    ELSE monte_carlo_marginals(constraints, mc_samples, shuffles)

(***************************************************************************)
(* engine.py.  It takes Player, Play and Pass from game_state and          *)
(* OPPONENTS and ConstraintSet from constraints.                           *)
(***************************************************************************)
OracleState(game, constraints, probabilities) ==
    [game |-> game, constraints |-> constraints, probabilities |-> probabilities]

OracleState_initial(my_hand) ==
    LET game == GameState_initial(my_hand) IN
    IF IsError(game) THEN game
    ELSE LET constraints == ConstraintSet_initial(my_hand) IN
    IF IsError(constraints) THEN constraints
    ELSE OracleState(game, constraints, None)

\* OracleState.apply_action carrying the old table into the new state
OracleState_apply_action_KeepsTable(self, action) ==
    LET new_game == GameState_apply_action(self.game, action) IN
    IF IsError(new_game) THEN new_game
    ELSE
    LET new_constraints ==
            IF action.type = "Play"
            THEN ConstraintSet_apply_play(self.constraints, action.player, action.tile)
            ELSE IF action.player = SOUTH
            THEN self.constraints
            ELSE IF self.game.open_ends = None
            THEN Raise("AssertionError", "Pass requires open ends on the board")
            ELSE ConstraintSet_apply_pass(self.constraints, action.player,
                                          self.game.open_ends)
    IN IF IsError(new_constraints) THEN new_constraints
       ELSE OracleState(new_game, new_constraints, self.probabilities)

OracleState_apply_action(self, action) ==
    LET new_game == GameState_apply_action(self.game, action) IN
    IF IsError(new_game) THEN new_game
    ELSE
    LET new_constraints ==
            IF action.type = "Play"
            THEN ConstraintSet_apply_play(self.constraints, action.player, action.tile)
            ELSE IF action.player = SOUTH
            THEN self.constraints
            ELSE IF self.game.open_ends = None
            THEN Raise("AssertionError", "Pass requires open ends on the board")
            ELSE ConstraintSet_apply_pass(self.constraints, action.player,
                                          self.game.open_ends)
    IN IF IsError(new_constraints) THEN new_constraints
       ELSE OracleState(new_game, new_constraints, None)

compute_probabilities(self, mc_samples, shuffles) ==
    LET probs == auto_marginals(self.constraints, mc_samples, shuffles) IN
    IF IsError(probs) THEN probs
    ELSE OracleState(self.game, self.constraints, probs)

\* "for action in actions: state = state.apply_action(action)", from the
\* k-th action on; an exception ends the loop
RECURSIVE replay_actions(_, _, _)
replay_actions(state, actions, k) ==
    IF IsError(state) \/ k > Len(actions) THEN state
    ELSE replay_actions(OracleState_apply_action(state, actions[k]), actions, k + 1)

replay_game(my_hand, actions, mc_samples, shuffles) ==
    LET state == replay_actions(OracleState_initial(my_hand), actions, 1) IN
    IF IsError(state) THEN state
    ELSE compute_probabilities(state, mc_samples, shuffles)

\* None when every assertion passes, else the first AssertionError
verify_consistency(self) ==
    IF self.game.played_tiles # self.constraints.played_tiles
    THEN Raise("AssertionError", "Played tiles mismatch")
    ELSE IF self.game.my_hand # self.constraints.my_hand
    THEN Raise("AssertionError", "My hand mismatch")
    ELSE IF GameState_unknown_tiles(self.game)
                # ConstraintSet_unknown_tiles(self.constraints)
    THEN Raise("AssertionError", "Unknown tiles mismatch")
    ELSE IF \E i \in 1..Len(OPPONENTS) :
                self.game.tiles_remaining[OPPONENTS[i].value + 1]
                    # self.constraints.player_constraints[OPPONENTS[i]].tiles_remaining
    THEN Raise("AssertionError", "tiles_remaining mismatch")
    ELSE IF \E i \in 1..Len(OPPONENTS) :
                ~(get_candidates(self.constraints, OPPONENTS[i])
                      \subseteq ConstraintSet_unknown_tiles(self.constraints))
    THEN Raise("AssertionError", "candidates not in unknown tiles")
    ELSE None

(***************************************************************************)
(* Inputs tried by the model.                                              *)
(***************************************************************************)
\* the hand used throughout the repository's tests
SOUTH_HAND ==
    {<<0, 1>>, <<1, 3>>, <<2, 5>>, <<3, 3>>, <<4, 6>>, <<5, 5>>, <<6, 6>>}

\* the seven tiles bearing pip 0
ZERO_HAND == {t \in generate_full_set : t[1] = 0}

\* an object that is not a catalog tile
ForeignTile == <<0, 9>>

InputHands ==
    { SOUTH_HAND,
      ZERO_HAND,
      SOUTH_HAND \ {<<6, 6>>},
      SOUTH_HAND \cup {<<0, 0>>},
      (SOUTH_HAND \ {<<6, 6>>}) \cup {ForeignTile},
      {} }

InputTiles == {<<0, 0>>, <<0, 1>>, <<0, 2>>, <<1, 1>>, <<1, 2>>, <<2, 2>>}

InputEnds == 0..2

InputActions ==
    {Play(p, t, e) : p \in Player, t \in InputTiles, e \in InputEnds}
        \cup {Pass(p) : p \in Player}

\* all orders of the indices 0..n-1
IndexOrders(n) ==
    {p \in [1..n -> 0..(n - 1)] :
        \A i, j \in 1..n : i # j => p[i] # p[j]}

\* the orders a shuffle of n indices is tried with
Shuffles(n) ==
    IF n <= MaxShuffled THEN IndexOrders(n)
    ELSE {[i \in 1..n |-> i - 1], [i \in 1..n |-> n - i]}

\* the orders a shuffle of n indices is tried with, listed
ShuffleList(n) ==
    IF n <= MaxShuffled
    THEN CHOOSE l \in [1..Cardinality(IndexOrders(n)) -> IndexOrders(n)] :
             \A i, j \in DOMAIN l : l[i] = l[j] => i = j
    ELSE <<[i \in 1..n |-> i - 1], [i \in 1..n |-> n - i]>>

\* a generator that ignores the seed it is given
default_rng_shuffles_SeedIgnored(rng_seed, n_samples, n_tiles) ==
    [1..n_samples -> {ShuffleList(n_tiles)[i] : i \in DOMAIN ShuffleList(n_tiles)}]

\* the orders "rng.shuffle(indices)" leaves the indices in at trials
\* 1..n_samples, as the generator "np.random.default_rng(rng_seed)" produces
\* them.  A seeded generator produces one sequence, a function of the seed (a
\* digit of the seed selects each trial's order); an unseeded one takes its
\* seed from the operating system and can produce any sequence.
default_rng_shuffles(rng_seed, n_samples, n_tiles) ==
    LET orders == ShuffleList(n_tiles)
        m      == Len(orders)
        OfSeed(seed) ==
            [k \in 1..n_samples |-> orders[((seed \div (m ^ (k - 1))) % m) + 1]]
    IN  IF rng_seed = None
        THEN {OfSeed(seed) : seed \in 0..((m ^ n_samples) - 1)}
        ELSE {OfSeed(rng_seed[1])}

\* the seeds given: none, or one of 0..MaxSeed
InputSeeds == {None} \cup {<<seed>> : seed \in 0..MaxSeed}

(***************************************************************************)
(* A GameState driven directly: GameState.initial, then any sequence of    *)
(* GameState.apply_action calls.  A call that raises leaves the caller     *)
(* with the state it had.                                                  *)
(***************************************************************************)
InitGame ==
    \E hand \in InputHands :
        /\ call = [op |-> "GameState.initial", arg |-> hand]
        /\ LET r == GameState_initial(hand) IN
           IF IsError(r)
           THEN gs = None /\ raised = r
           ELSE gs = r /\ raised = None
        /\ os = None
        /\ active = {}
        /\ cs = None /\ pt = None /\ ncalls = 0 /\ deal = None /\ cache = <<>>

GameApply(action) ==
    /\ gs # None
    /\ Len(gs.history) < MaxHistory
    /\ call' = [op |-> "GameState.apply_action", arg |-> action]
    /\ LET r == GameState_apply_action(gs, action) IN
       IF IsError(r)
       THEN gs' = gs /\ raised' = r
       ELSE gs' = r /\ raised' = None
    /\ UNCHANGED <<os, active, cs, pt, ncalls, cache, deal>>

NextGame == \E action \in InputActions : GameApply(action)

SpecGame == InitGame /\ [][NextGame]_vars

(***************************************************************************)
(* An OracleState driven through its API: OracleState.initial, then any    *)
(* sequence of OracleState.apply_action and compute_probabilities calls.   *)
(* Probabilities are computed on the states of the first moves that hold   *)
(* no table yet.                                                           *)
(***************************************************************************)
Init ==
    \E hand \in InputHands :
        /\ call = [op |-> "OracleState.initial", arg |-> hand]
        /\ LET r == OracleState_initial(hand) IN
           IF IsError(r)
           THEN os = None /\ raised = r
           ELSE os = r /\ raised = None
        /\ gs = None
        /\ active = {}
        /\ cs = None /\ pt = None /\ ncalls = 0 /\ deal = None /\ cache = <<>>

OracleApply(action) ==
    /\ os # None
    /\ Len(os.game.history) < MaxHistory
    /\ call' = [op |-> "OracleState.apply_action", arg |-> action]
    /\ LET r == OracleState_apply_action(os, action) IN
       IF IsError(r)
       THEN os' = os /\ raised' = r
       ELSE os' = r /\ raised' = None
    /\ UNCHANGED <<gs, active, cs, pt, ncalls, cache, deal>>

OracleCompute(mc_samples, rng_seed, shuffles) ==
    /\ os # None
    /\ Len(os.game.history) <= MaxQueried
    /\ os.probabilities = None
    /\ call' = [op |-> "OracleState.compute_probabilities",
                arg |-> <<mc_samples, shuffles, rng_seed>>]
    /\ LET r == compute_probabilities(os, mc_samples, shuffles) IN
       IF IsError(r)
       THEN os' = os /\ raised' = r
       ELSE os' = r /\ raised' = None
    /\ UNCHANGED <<gs, active, cs, pt, ncalls, cache, deal>>

Next ==
    \/ \E action \in InputActions : OracleApply(action)
    \/ /\ os # None
       /\ Len(os.game.history) <= MaxQueried
       /\ os.probabilities = None
       /\ \E mc_samples \in 1..MaxSamples :
          \E rng_seed \in InputSeeds :
          \E shuffles \in
                  default_rng_shuffles(
                      rng_seed, mc_samples,
                      Cardinality(ConstraintSet_unknown_tiles(os.constraints))) :
              OracleCompute(mc_samples, rng_seed, shuffles)

Spec == Init /\ [][Next]_vars

(***************************************************************************)
(* Long games on a GameState.  The seats in `active` play, every other     *)
(* seat passes; the seat to move plays the least legal (tile, end) of the  *)
(* whole catalog, and the opening move is always a play (a pass is         *)
(* rejected before the first tile).  A seat with no legal tile passes.     *)
(***************************************************************************)
LegalPlays(self) ==
    {te \in (generate_full_set \ self.played_tiles) \X Pips :
        /\ contains_value(te[1], te[2])
        /\ \/ self.open_ends = None
           \/ te[2] \in {self.open_ends[1], self.open_ends[2]}}

\* the order of (tile, end) pairs: by tile as Python orders tiles, then by end
PlayBefore(x, y) ==
    \/ x[1][1] < y[1][1]
    \/ x[1][1] = y[1][1] /\ x[1][2] < y[1][2]
    \/ x[1] = y[1] /\ x[2] <= y[2]

LeastLegalPlay(self) ==
    CHOOSE x \in LegalPlays(self) : \A y \in LegalPlays(self) : PlayBefore(x, y)

LongGameAction(self, seats) ==
    IF /\ self.open_ends = None \/ self.current_player.value \in seats
       /\ LegalPlays(self) # {}
    THEN Play(self.current_player, LeastLegalPlay(self)[1], LeastLegalPlay(self)[2])
    ELSE Pass(self.current_player)

InitLong ==
    \E hand \in {SOUTH_HAND, ZERO_HAND} :
    \E seats \in SUBSET {0, 1, 2, 3} :
        /\ call = [op |-> "GameState.initial", arg |-> hand]
        /\ gs = GameState_initial(hand)
        /\ raised = None
        /\ os = None
        /\ active = seats
        /\ cs = None /\ pt = None /\ ncalls = 0 /\ deal = None /\ cache = <<>>

LongApply ==
    /\ Len(gs.history) < MaxDeep
    /\ LET action == LongGameAction(gs, active)
           r      == GameState_apply_action(gs, action)
       IN /\ call' = [op |-> "GameState.apply_action", arg |-> action]
          /\ IF IsError(r)
             THEN gs' = gs /\ raised' = r
             ELSE gs' = r /\ raised' = None
    /\ UNCHANGED <<os, active, cs, pt, ncalls, cache, deal>>

NextLong == LongApply

SpecLong == InitLong /\ [][NextLong]_vars

(***************************************************************************)
(* A ConstraintSet driven directly through its own methods, with the       *)
(* Player members of constraints.py, and the marginals computed on it.     *)
(* An opponent that has no tile left does not play.  exact_marginals is    *)
(* run on the small constraint sets and on those it refuses as too large.  *)
(* A run ends with the marginals call it makes.                            *)
(***************************************************************************)
\* the unknown tiles of the small constraint sets
SmallTileSets == {{<<0, 0>>, <<1, 1>>}, {<<0, 0>>, <<1, 1>>, <<2, 2>>}}

C_Player == {C_SOUTH, C_WEST, C_NORTH, C_EAST}

Opponents == {OPPONENTS[i] : i \in 1..Len(OPPONENTS)}

\* constraint sets built field by field: the hand is SOUTH_HAND, a few tiles
\* are unknown, every opponent has some of them as candidates
SmallConstraintSetsOver(unknown) ==
    {ConstraintSet(
         [p \in Opponents |-> PlayerConstraints(cands[p], rem[p], {})],
         (generate_full_set \ SOUTH_HAND) \ unknown,
         SOUTH_HAND) :
        cands \in [Opponents -> SUBSET unknown],
        rem \in [Opponents -> 0..MaxRemaining]}

\* constraint sets over the 21 tiles outside SOUTH_HAND, nothing played: the
\* one ConstraintSet.initial builds, and one whose counts sum to 20
LargeConstraintSets ==
    {ConstraintSet(
         [p \in Opponents |->
             PlayerConstraints(generate_full_set \ SOUTH_HAND,
                               IF p = C_EAST THEN east ELSE 7, {})],
         {},
         SOUTH_HAND) :
        east \in {6, 7}}

CSPlay(player, tile) ==
    /\ cs # None
    /\ ncalls < MaxCalls
    /\ player \in DOMAIN cs.player_constraints
           => cs.player_constraints[player].tiles_remaining > 0
    /\ call' = [op |-> "ConstraintSet.apply_play", arg |-> <<player, tile>>]
    /\ cs' = ConstraintSet_apply_play(cs, player, tile)
    /\ raised' = None
    /\ pt' = None
    /\ ncalls' = ncalls + 1
    /\ UNCHANGED <<gs, os, active, cache, deal>>

CSPass(player, open_ends) ==
    /\ cs # None
    /\ pt = None
    /\ ncalls < MaxCalls
    /\ call' = [op |-> "ConstraintSet.apply_pass", arg |-> <<player, open_ends>>]
    /\ LET r == ConstraintSet_apply_pass(cs, player, open_ends) IN
       IF IsError(r)
       THEN cs' = cs /\ raised' = r
       ELSE cs' = r /\ raised' = None
    /\ pt' = None
    /\ ncalls' = ncalls + 1
    /\ UNCHANGED <<gs, os, active, cache, deal>>

CSPropagate ==
    /\ cs # None
    /\ pt = None
    /\ call' = [op |-> "ConstraintSet.propagate", arg |-> cs]
    /\ cs' = propagate(cs)
    /\ raised' = None
    /\ pt' = None
    /\ UNCHANGED <<gs, os, active, ncalls, cache, deal>>

CSExact ==
    /\ cs # None
    /\ pt = None
    /\ \/ Cardinality(ConstraintSet_unknown_tiles(cs)) <= MaxEnumerated
       \/ Cardinality(ConstraintSet_unknown_tiles(cs)) > 18
       \/ \A p \in Opponents : Cardinality(get_candidates(cs, p)) <= MaxPool
    /\ call' = [op |-> "exact_marginals", arg |-> cs]
    /\ LET r == exact_marginals(cs) IN
       /\ pt' = r
       /\ raised' = IF IsError(r) THEN r ELSE None
    /\ UNCHANGED <<gs, os, active, cs, ncalls, cache, deal>>

CSMonteCarlo(n_samples, shuffles) ==
    /\ cs # None
    /\ pt = None
    /\ call' = [op |-> "monte_carlo_marginals", arg |-> <<cs, n_samples, shuffles>>]
    /\ LET r == monte_carlo_marginals(cs, n_samples, shuffles) IN
       /\ pt' = r
       /\ raised' = IF IsError(r) THEN r ELSE None
    /\ UNCHANGED <<gs, os, active, cs, ncalls, cache, deal>>

CSSample ==
    \E n_samples \in 1..MaxSamples :
    \E shuffles \in [1..n_samples ->
                        Shuffles(Cardinality(ConstraintSet_unknown_tiles(cs)))] :
        CSMonteCarlo(n_samples, shuffles)

\* from ConstraintSet.initial, by plays and passes; marginals on the first sets
InitCS ==
    \E hand \in InputHands :
        /\ call = [op |-> "ConstraintSet.initial", arg |-> hand]
        /\ LET r == ConstraintSet_initial(hand) IN
           IF IsError(r)
           THEN cs = None /\ raised = r
           ELSE cs = r /\ raised = None
        /\ pt = None /\ ncalls = 0 /\ deal = None /\ cache = <<>>
        /\ gs = None /\ os = None /\ active = {}

NextCS ==
    \/ \E player \in C_Player, tile \in InputTiles : CSPlay(player, tile)
    \/ \E player \in C_Player, open_ends \in InputEnds \X InputEnds :
           CSPass(player, open_ends)
    \/ ncalls <= MaxQueried /\ CSExact
    \/ cs # None /\ ncalls <= MaxQueried /\ CSSample

SpecCS == InitCS /\ [][NextCS]_vars

\* from a constraint set built field by field
InitInferWith(built) ==
    /\ call = [op |-> "ConstraintSet", arg |-> built]
    /\ cs = built
    /\ raised = None
    /\ pt = None /\ ncalls = 0 /\ deal = None /\ cache = <<>>
    /\ gs = None /\ os = None /\ active = {}

\* a constraint set over few tiles in which one opponent has passed, built
\* the way the tests' late-game fixtures are: every opponent starts with all
\* the unknown tiles as candidates and apply_pass then narrows one of them
InitInferPassed ==
    \E unknown \in SmallTileSets :
    \E rem \in [Opponents -> 0..MaxRemaining] :
    \E player \in Opponents :
    \E open_ends \in InputEnds \X InputEnds :
        /\ call = [op |-> "ConstraintSet.apply_pass", arg |-> <<player, open_ends>>]
        /\ cs = ConstraintSet_apply_pass(
                    ConstraintSet(
                        [p \in Opponents |-> PlayerConstraints(unknown, rem[p], {})],
                        (generate_full_set \ SOUTH_HAND) \ unknown,
                        SOUTH_HAND),
                    player, open_ends)
        /\ raised = None
        /\ pt = None /\ ncalls = 1 /\ deal = None /\ cache = <<>>
        /\ gs = None /\ os = None /\ active = {}

InitInfer ==
    \/ \E unknown \in SmallTileSets :
       \E built \in SmallConstraintSetsOver(unknown) : InitInferWith(built)
    \/ \E built \in LargeConstraintSets : InitInferWith(built)
    \/ InitInferPassed

NextInfer ==
    \/ CSPropagate
    \/ CSExact
    \/ CSSample

SpecInfer == InitInfer /\ [][NextInfer]_vars

(***************************************************************************)
(* replay_game next to OracleState.apply_action: a state is built one      *)
(* action at a time, and replay_game is called with the hand that state    *)
(* started from and the actions it accepted, alone or followed by one more *)
(* action.  The caller assigns what replay_game returns to its state; a    *)
(* run makes one replay_game call after the call that built the state.     *)
(***************************************************************************)
\* the hand the state started from: what South holds and what South played
InitialHand(self) ==
    self.game.my_hand
        \cup {self.game.history[k].tile :
                 k \in {i \in DOMAIN self.game.history :
                            /\ self.game.history[i].type = "Play"
                            /\ self.game.history[i].player = SOUTH}}

\* the unknown tiles of the state the replayed actions lead to
ReplayedUnknown(my_hand, actions) ==
    LET state == replay_actions(OracleState_initial(my_hand), actions, 1) IN
    IF IsError(state) THEN 0
    ELSE Cardinality(ConstraintSet_unknown_tiles(state.constraints))

ReplayStep(action) ==
    /\ os # None
    /\ Len(os.game.history) < MaxQueried
    /\ OracleApply(action)

OracleReplay(my_hand, actions, mc_samples, rng_seed, shuffles) ==
    /\ call' = [op |-> "replay_game",
                arg |-> <<my_hand, actions, mc_samples, rng_seed>>]
    /\ LET r == replay_game(my_hand, actions, mc_samples, shuffles) IN
       IF IsError(r)
       THEN os' = os /\ raised' = r
       ELSE os' = r /\ raised' = None
    /\ UNCHANGED <<gs, active, cs, pt, ncalls, cache, deal>>

NextReplay ==
    \/ \E action \in InputActions : ReplayStep(action)
    \/ /\ os # None
       /\ Len(os.game.history) <= MaxQueried
       /\ os.probabilities = None
       /\ raised = None
       /\ \E more \in {<<>>} \cup {<<action>> : action \in InputActions} :
          \E mc_samples \in 1..MaxSamples :
          \E rng_seed \in InputSeeds :
          \E shuffles \in
                  default_rng_shuffles(
                      rng_seed, mc_samples,
                      ReplayedUnknown(InitialHand(os), os.game.history \o more)) :
              OracleReplay(InitialHand(os), os.game.history \o more,
                           mc_samples, rng_seed, shuffles)

SpecReplay == Init /\ [][NextReplay]_vars

(***************************************************************************)
(* The worked example of the integration tests: the observer holds         *)
(* SOUTH_HAND and the first round is EXAMPLE_ACTIONS.  The state is driven *)
(* with these actions and with every other action over the same tiles,     *)
(* ends and seats.                                                         *)
(***************************************************************************)
EXAMPLE_ACTIONS ==
    << Play(SOUTH, <<3, 3>>, 3),
       Pass(WEST),
       Play(NORTH, <<3, 6>>, 3),
       Play(EAST, <<2, 6>>, 6) >>

ExampleInputActions ==
    {Play(p, t, e) : p \in Player,
                     t \in {<<3, 3>>, <<3, 6>>, <<2, 6>>},
                     e \in {2, 3, 6}}
        \cup {Pass(p) : p \in Player}

InitExample ==
    /\ call = [op |-> "OracleState.initial", arg |-> SOUTH_HAND]
    /\ os = OracleState_initial(SOUTH_HAND)
    /\ raised = None
    /\ gs = None
    /\ active = {}
    /\ cs = None /\ pt = None /\ ncalls = 0 /\ deal = None /\ cache = <<>>

NextExample == \E action \in ExampleInputActions : OracleApply(action)

SpecExample == InitExample /\ [][NextExample]_vars

(***************************************************************************)
(* The tile catalog and the suits.  suits is wrapped in                    *)
(* functools.lru_cache(maxsize=7): a call whose argument is cached returns *)
(* the cached value and becomes the most recently used entry; any other    *)
(* call runs the function, and what it returns is cached, the least        *)
(* recently used entry being evicted when the cache is full.  A call that  *)
(* raises caches nothing.                                                  *)
(***************************************************************************)
lru_maxsize == 7

InputValues == (0 - 1)..7

CachedKeys == {cache[i].key : i \in DOMAIN cache}

\* the cache without its entry for key
CacheWithout(key) == SelectSeq(cache, LAMBDA e : e.key # key)

InitTiles ==
    /\ call = [op |-> "generate_full_set", arg |-> None]
    /\ cache = <<>>
    /\ raised = None
    /\ gs = None /\ os = None /\ active = {}
    /\ cs = None /\ pt = None /\ ncalls = 0 /\ deal = None

SuitsCall(value) ==
    /\ call' = [op |-> "suits", arg |-> value]
    /\ IF value \in CachedKeys
       THEN /\ cache' = Append(CacheWithout(value),
                               CHOOSE e \in {cache[i] : i \in DOMAIN cache} :
                                   e.key = value)
            /\ raised' = None
       ELSE IF ~(0 <= value /\ value <= 6)
            THEN cache' = cache /\ raised' = suits(value)
            ELSE /\ cache' = LET added == Append(cache, [key    |-> value,
                                                         result |-> suits(value)])
                             IN  IF Len(added) > lru_maxsize THEN Tail(added) ELSE added
                 /\ raised' = None
    /\ UNCHANGED <<gs, os, active, cs, pt, ncalls, deal>>

NextTiles == \E value \in InputValues : SuitsCall(value)

SpecTiles == InitTiles /\ [][NextTiles]_vars

(***************************************************************************)
(* Dealt games: the 21 tiles outside SOUTH_HAND are dealt to the three     *)
(* opponents, and at every turn the player to move plays a legal tile it   *)
(* holds, or passes when it holds none.  The actions go to a GameState     *)
(* (gs), to an OracleState (os) for as long as it accepts them, and to a   *)
(* ConstraintSet (cs) through apply_play and apply_pass called with the    *)
(* members of constraints.Player.                                          *)
(***************************************************************************)
\* longest history of a dealt game
MaxDealt == 6

InputDeals ==
    LET u == sorted(generate_full_set \ SOUTH_HAND) IN
    { [seat \in 1..3 |-> {u[i] : i \in (7 * (seat - 1) + 1)..(7 * seat)}],
      [seat \in 1..3 |-> {u[i] : i \in {j \in 1..21 : j % 3 = seat - 1}}],
      [seat \in 1..3 |-> {u[i] : i \in (7 * (seat % 3) + 1)..(7 * (seat % 3) + 7)}] }

\* the member of constraints.Player that stands for the same seat
SeatOf(player) == CHOOSE c \in C_Player : c.value = player.value

\* the tiles the player to move holds
HandOfMover(self, dealt) ==
    IF self.current_player = SOUTH THEN self.my_hand
    ELSE dealt[self.current_player.value] \ self.played_tiles

\* the actions open to the player to move: its legal plays, else a pass
DealtActions(self, dealt) ==
    LET plays == {Play(self.current_player, te[1], te[2]) :
                     te \in {x \in LegalPlays(self) : x[1] \in HandOfMover(self, dealt)}}
    IN  IF plays # {} THEN plays ELSE {Pass(self.current_player)}

InitDeal ==
    \E dealt \in InputDeals :
        /\ deal = dealt
        /\ call = [op |-> "OracleState.initial", arg |-> SOUTH_HAND]
        /\ gs = GameState_initial(SOUTH_HAND)
        /\ os = OracleState_initial(SOUTH_HAND)
        /\ cs = ConstraintSet_initial(SOUTH_HAND)
        /\ raised = None
        /\ active = {}
        /\ pt = None /\ ncalls = 0 /\ cache = <<>>

DealStep(action) ==
    /\ Len(gs.history) < MaxDealt
    /\ ~is_game_over(gs)
    /\ call' = [op |-> "OracleState.apply_action", arg |-> action]
    /\ gs' = GameState_apply_action(gs, action)
    /\ LET r == IF os.game = gs THEN OracleState_apply_action(os, action)
                ELSE Raise("ValueError", "not the state of the game")
       IN  IF IsError(r)
           THEN os' = os /\ raised' = r
           ELSE os' = r /\ raised' = None
    /\ cs' = IF action.type = "Play"
             THEN ConstraintSet_apply_play(cs, SeatOf(action.player), action.tile)
             ELSE IF action.player = SOUTH
             THEN cs
             ELSE ConstraintSet_apply_pass(cs, SeatOf(action.player), gs.open_ends)
    /\ UNCHANGED <<active, pt, ncalls, cache, deal>>

NextDeal == \E action \in DealtActions(gs, deal) : DealStep(action)

SpecDeal == InitDeal /\ [][NextDeal]_vars

(***************************************************************************)
(* The dispatch of auto_marginals, on constraint sets whose unknown-tile   *)
(* counts lie around the two limits (15 and 18).  Each opponent's          *)
(* candidates are a block of the sorted unknown tiles of its remaining     *)
(* size, as in the tests' fully determined fixture, so that exact          *)
(* enumeration has one configuration to find however many tiles there are. *)
(***************************************************************************)
DispatchSizes == (EXACT_THRESHOLD - 1)..(EXACT_THRESHOLD + 4)

DeterminedConstraintSets(n) ==
    LET unknown_list == SubSeq(sorted(generate_full_set \ SOUTH_HAND), 1, n)
        Block(lo, hi) == {unknown_list[k] : k \in lo..hi}
    IN  {ConstraintSet(
             [p \in Opponents |->
                 IF p = C_WEST THEN PlayerConstraints(Block(1, a), a, {})
                 ELSE IF p = C_NORTH THEN PlayerConstraints(Block(a + 1, a + b), b, {})
                 ELSE PlayerConstraints(Block(a + b + 1, n), n - a - b, {})],
             (generate_full_set \ SOUTH_HAND) \ Block(1, n),
             SOUTH_HAND) :
            <<a, b>> \in {ab \in (0..MaxPool) \X (0..MaxPool) :
                             /\ n - ab[1] - ab[2] >= 0
                             /\ n - ab[1] - ab[2] <= MaxPool}}

CSAutoWith(mc_samples, shuffles) ==
    /\ cs # None
    /\ pt = None
    /\ call' = [op |-> "auto_marginals", arg |-> <<cs, mc_samples, shuffles>>]
    /\ LET r == auto_marginals(cs, mc_samples, shuffles) IN
       /\ pt' = r
       /\ raised' = IF IsError(r) THEN r ELSE None
    /\ UNCHANGED <<gs, os, active, cs, ncalls, cache, deal>>

CSAuto ==
    \E mc_samples \in 1..MaxSamples :
    \E shuffles \in [1..mc_samples ->
                        Shuffles(Cardinality(ConstraintSet_unknown_tiles(cs)))] :
        CSAutoWith(mc_samples, shuffles)

InitDispatch ==
    \/ \E n \in DispatchSizes :
       \E built \in DeterminedConstraintSets(n) : InitInferWith(built)
    \/ \E built \in LargeConstraintSets : InitInferWith(built)

NextDispatch ==
    \/ CSExact
    \/ CSAuto

SpecDispatch == InitDispatch /\ [][NextDispatch]_vars

(***************************************************************************)
(* The claims.                                                             *)
(***************************************************************************)

\* C1: in every OracleState reached from OracleState.initial by accepted
\* apply_action calls, verify_consistency passes: game state and constraint
\* set agree on played tiles, observer hand, unknown tiles and the three
\* opponents' remaining counts.  (Stated as claimed; checked under Spec.)
C1_VerifyConsistencyNeverFails ==
    os # None => verify_consistency(os) = None

\* C2: in every GameState reached from GameState.initial by accepted
\* actions, my_hand \cup played_tiles \cup unknown_tiles() is the full
\* 28-tile catalog.  (Checked under SpecGame.)
C2_HandPlayedUnknownCoverCatalog ==
    gs # None =>
        /\ gs.my_hand \cup gs.played_tiles \cup GameState_unknown_tiles(gs)
               = generate_full_set
        /\ Cardinality(gs.my_hand \cup gs.played_tiles
                           \cup GameState_unknown_tiles(gs)) = 28

\* C2 witness: the observer has played a tile of its hand and an opponent
\* has played another tile.
C2_Witness ==
    /\ gs # None
    /\ Cardinality(gs.my_hand) = 6
    /\ Cardinality(gs.played_tiles) >= 2
    /\ gs.played_tiles \cap gs.my_hand = {}

\* C3: a Play by the current player is rejected exactly when the tile lacks
\* the declared end, or the tile is already played, or open ends exist and
\* the declared end is neither of them; a rejected Play leaves the state it
\* was applied to unchanged and yields no new state.  (Checked under SpecGame.)
C3_PlayRejectedExactlyWhen ==
    [][ ( /\ call'.op = "GameState.apply_action"
          /\ call'.arg.type = "Play"
          /\ call'.arg.player = gs.current_player )
        =>
        LET t   == call'.arg.tile
            e   == call'.arg.end
            bad == \/ (t[1] # e /\ t[2] # e)
                   \/ t \in gs.played_tiles
                   \/ /\ gs.open_ends # None
                      /\ e # gs.open_ends[1]
                      /\ e # gs.open_ends[2]
        IN /\ (raised' # None) <=> bad
           /\ (raised' # None) => gs' = gs
           /\ (raised' = None) => gs'.history = Append(gs.history, call'.arg)
      ]_vars

\* C3 witness: a Play by the current player, of an unplayed tile that bears
\* its declared end, was rejected because that end is not open.
C3_Witness ==
    /\ gs # None
    /\ call.op = "GameState.apply_action"
    /\ call.arg.type = "Play"
    /\ call.arg.player = gs.current_player
    /\ raised # None
    /\ contains_value(call.arg.tile, call.arg.end)
    /\ call.arg.tile \notin gs.played_tiles

\* C4: apply_action on an action whose player is not the current player
\* fails, whatever the action, and changes nothing: neither the game state
\* (turn, history, open ends, played tiles, hand, remaining counts) nor the
\* constraint set.  (Checked under Spec; OracleState.apply_action hands the
\* action to GameState.apply_action first.)
C4_WrongPlayerAlwaysRejected ==
    [][ ( /\ call'.op = "OracleState.apply_action"
          /\ call'.arg.player # os.game.current_player )
        =>
        /\ raised' # None
        /\ os'.game.current_player = os.game.current_player
        /\ os'.game.history = os.game.history
        /\ os'.game.open_ends = os.game.open_ends
        /\ os'.game.played_tiles = os.game.played_tiles
        /\ os'.game.my_hand = os.game.my_hand
        /\ os'.game.tiles_remaining = os.game.tiles_remaining
        /\ os'.constraints = os.constraints
      ]_vars

\* C4 witness: a Pass that would be legal from the seat to move (tiles are
\* on the board) was made by another seat and rejected.
C4_Witness ==
    /\ os # None
    /\ call.op = "OracleState.apply_action"
    /\ call.arg.type = "Pass"
    /\ call.arg.player # os.game.current_player
    /\ os.game.open_ends # None
    /\ raised # None

\* C5: an accepted Play on an empty board sets the open ends to the tile's
\* (lo, hi) whatever end was declared; otherwise it replaces exactly one end
\* equal to the declared end by the tile's other pip value, the left one when
\* both ends equal the declared end, and keeps the other end.  (SpecGame.)
C5_OpenEndUpdate ==
    [][ ( /\ call'.op = "GameState.apply_action"
          /\ call'.arg.type = "Play"
          /\ raised' = None )
        =>
        LET t     == call'.arg.tile
            e     == call'.arg.end
            other == t[1] + t[2] - e
            old   == gs.open_ends
            new   == gs'.open_ends
        IN IF old = None
           THEN new = <<t[1], t[2]>>
           ELSE \/ old[1] = e /\ new[1] = other /\ new[2] = old[2]
                \/ old[1] # e /\ old[2] = e /\ new[1] = old[1] /\ new[2] = other
      ]_vars

\* C5 witness: the opening tile was a double and the second action was a
\* Play of a non-double onto it, so both ends equalled the declared end.
C5_Witness ==
    /\ gs # None
    /\ raised = None
    /\ Len(gs.history) = 2
    /\ gs.history[1].tile[1] = gs.history[1].tile[2]
    /\ gs.history[2].type = "Play"
    /\ gs.history[2].tile[1] # gs.history[2].tile[2]
    /\ gs.open_ends[2] = gs.history[1].tile[1]

\* C6: an accepted Play adds exactly the played tile to played_tiles, takes
\* one from the playing seat's remaining count and leaves the other three,
\* moves the turn to the next seat, appends the action to history, and
\* changes the observer's hand (removing the tile) only when the observer
\* plays.  (SpecGame.)
C6_PlayFrame ==
    [][ ( /\ call'.op = "GameState.apply_action"
          /\ call'.arg.type = "Play"
          /\ raised' = None )
        =>
        LET a == call'.arg IN
        /\ a.tile \notin gs.played_tiles
        /\ gs'.played_tiles = gs.played_tiles \cup {a.tile}
        /\ \A seat \in Player :
               gs'.tiles_remaining[seat.value + 1] =
                   IF seat = a.player
                   THEN gs.tiles_remaining[seat.value + 1] - 1
                   ELSE gs.tiles_remaining[seat.value + 1]
        /\ gs'.current_player.value = (gs.current_player.value + 1) % 4
        /\ Len(gs'.history) = Len(gs.history) + 1
        /\ gs'.history[Len(gs'.history)] = a
        /\ SubSeq(gs'.history, 1, Len(gs.history)) = gs.history
        /\ IF a.player = SOUTH
           THEN gs'.my_hand = gs.my_hand \ {a.tile}
           ELSE gs'.my_hand = gs.my_hand
      ]_vars

\* C6 witness: an opponent's Play of a tile that is in the observer's hand
\* was accepted.
C6_Witness ==
    /\ gs # None
    /\ raised = None
    /\ call.op = "GameState.apply_action"
    /\ call.arg.type = "Play"
    /\ call.arg.player # SOUTH
    /\ call.arg.tile \in gs.my_hand
    /\ gs.history[Len(gs.history)] = call.arg

\* C7: a Pass by the current player fails when no open ends exist yet;
\* otherwise it is accepted, leaves open ends, played tiles, hand and the
\* four remaining counts unchanged, advances the turn by one seat and
\* appends the Pass to history.  (SpecGame.)
C7_PassFrame ==
    [][ ( /\ call'.op = "GameState.apply_action"
          /\ call'.arg.type = "Pass"
          /\ call'.arg.player = gs.current_player )
        =>
        IF gs.open_ends = None
        THEN raised' # None /\ gs' = gs
        ELSE /\ raised' = None
             /\ gs'.open_ends = gs.open_ends
             /\ gs'.played_tiles = gs.played_tiles
             /\ gs'.my_hand = gs.my_hand
             /\ gs'.tiles_remaining = gs.tiles_remaining
             /\ gs'.current_player.value = (gs.current_player.value + 1) % 4
             /\ gs'.history = Append(gs.history, call'.arg)
      ]_vars

\* C7 witness: a Pass was rejected on the empty board.
C7_Witness ==
    /\ gs # None
    /\ call.op = "GameState.apply_action"
    /\ call.arg.type = "Pass"
    /\ call.arg.player = gs.current_player
    /\ gs.open_ends = None
    /\ raised # None

\* C8: the turn follows the cycle SOUTH, WEST, NORTH, EAST, SOUTH: in every
\* reachable state, also one left by a rejected action, the current player
\* is the seat numbered (length of history) mod 4.  (SpecGame.)
C8_TurnIsHistoryLengthModFour ==
    gs # None =>
        /\ gs.current_player.value = Len(gs.history) % 4
        /\ gs.current_player = <<SOUTH, WEST, NORTH, EAST>>[(Len(gs.history) % 4) + 1]

\* C8 witness: after four accepted actions the turn is back with SOUTH.
C8_Witness ==
    /\ gs # None
    /\ Len(gs.history) = 4
    /\ gs.current_player = SOUTH

\* C9: is_game_over() is true exactly when some seat's remaining count is 0
\* or the history has at least four actions and its last four are all
\* Passes; so it is false in the initial state, after a Play followed by
\* only three Passes, and when a Play is among the last four actions (and no
\* seat is out of tiles).  (Checked under SpecLong.)
C9_GameOverExactlyWhen ==
    gs # None =>
        LET h          == gs.history
            n          == Len(h)
            someZero   == \E seat \in Player : gs.tiles_remaining[seat.value + 1] = 0
            fourPasses == n >= 4 /\ \A k \in 0..3 : h[n - k].type = "Pass"
        IN /\ is_game_over(gs) <=> (someZero \/ fourPasses)
           /\ n = 0 => ~is_game_over(gs)
           /\ ( /\ n = 4
                /\ h[1].type = "Play"
                /\ \A k \in 2..4 : h[k].type = "Pass" ) => ~is_game_over(gs)
           /\ ( /\ n >= 4
                /\ ~someZero
                /\ \E k \in 0..3 : h[n - k].type = "Play" ) => ~is_game_over(gs)

\* C9 witness: a seat has played its seventh tile while the last four
\* actions were not all Passes, and the game is over.
C9_Witness ==
    /\ gs # None
    /\ is_game_over(gs)
    /\ \E seat \in Player : gs.tiles_remaining[seat.value + 1] = 0
    /\ \E k \in 0..3 : gs.history[Len(gs.history) - k].type = "Play"

\* C10: the initializers accept a hand iff it is a set of exactly 7 catalog
\* tiles; an accepted hand gives empty history, no open ends, no played
\* tiles, the observer to move, four seat counts of 7, 21 unknown tiles,
\* every opponent's candidates = catalog minus hand with remaining count 7
\* and no eliminated value, and no probability table.  (Checked under Spec.)
C10_Initializers ==
    call.op = "OracleState.initial" =>
        LET hand  == call.arg
            valid == /\ Cardinality(hand) = 7
                     /\ \A t \in hand : t[1] \in 0..6 /\ t[2] \in 0..6 /\ t[1] <= t[2]
        IN /\ (raised = None) <=> valid
           /\ (raised # None) => os = None
           /\ (raised = None) =>
                /\ os.game.my_hand = hand
                /\ os.game.history = <<>>
                /\ os.game.open_ends = None
                /\ os.game.played_tiles = {}
                /\ os.game.current_player = SOUTH
                /\ os.game.tiles_remaining = <<7, 7, 7, 7>>
                /\ Cardinality(GameState_unknown_tiles(os.game)) = 21
                /\ Cardinality(ConstraintSet_unknown_tiles(os.constraints)) = 21
                /\ DOMAIN os.constraints.player_constraints = {C_WEST, C_NORTH, C_EAST}
                /\ \A opp \in {C_WEST, C_NORTH, C_EAST} :
                       LET pc == os.constraints.player_constraints[opp] IN
                       /\ pc.candidate_tiles = generate_full_set \ hand
                       /\ pc.tiles_remaining = 7
                       /\ pc.eliminated_values = {}
                /\ os.probabilities = None

\* C10 witness: OracleState.initial accepted the seven tiles bearing pip 0.
C10_Witness ==
    /\ call.op = "OracleState.initial"
    /\ raised = None
    /\ os # None
    /\ os.game.my_hand = ZERO_HAND

\* the sum of the opponents' remaining counts of a constraint set
RemainingSum(self) ==
    self.player_constraints[OPPONENTS[1]].tiles_remaining
        + self.player_constraints[OPPONENTS[2]].tiles_remaining
        + self.player_constraints[OPPONENTS[3]].tiles_remaining

ChainConstraintSet ==
    ConstraintSet(
        [p \in Opponents |->
            PlayerConstraints(
                IF p = C_WEST THEN {<<0, 0>>}
                ELSE IF p = C_NORTH THEN {<<0, 0>>, <<1, 1>>}
                ELSE {<<0, 0>>, <<1, 1>>, <<2, 2>>},
                1, {})],
        (generate_full_set \ SOUTH_HAND) \ {<<0, 0>>, <<1, 1>>, <<2, 2>>},
        SOUTH_HAND)

C14_RemainingSumIsUnknownCount ==
    os # None =>
        RemainingSum(os.constraints)
            = Cardinality(ConstraintSet_unknown_tiles(os.constraints))

\* C15: in every reachable state, after any sequence of plays and passes,
\* each opponent's candidate set is a subset of the current unknown-tile set:
\* it holds no played tile and no tile of the observer's hand.
C15_CandidatesWithinUnknown ==
    os # None =>
        \A i \in 1..Len(OPPONENTS) :
            /\ get_candidates(os.constraints, OPPONENTS[i])
                   \subseteq ConstraintSet_unknown_tiles(os.constraints)
            /\ get_candidates(os.constraints, OPPONENTS[i])
                   \cap (os.constraints.played_tiles \cup os.constraints.my_hand) = {}

\* C15 witness: WEST's play of [0|0], a candidate of every opponent until
\* then, has been accepted as the second move.
C15_Witness ==
    /\ os # None
    /\ call.op = "OracleState.apply_action"
    /\ raised = None
    /\ call.arg = Play(WEST, <<0, 0>>, 0)
    /\ Len(os.game.history) = 2
    /\ <<0, 0>> \in os.constraints.played_tiles
    /\ <<0, 0>> \in generate_full_set \ os.constraints.my_hand

\* the same inclusion for a ConstraintSet driven directly, passes included
CandidatesWithinUnknownDirect ==
    cs # None =>
        \A i \in 1..Len(OPPONENTS) :
            get_candidates(cs, OPPONENTS[i]) \subseteq ConstraintSet_unknown_tiles(cs)

\* C16: stale probabilities are never readable.  The OracleState returned by
\* an accepted apply_action has no table, whether or not the state it was
\* applied to had one; a table enters a state only as the result of
\* compute_probabilities, together with the game state and constraint set it
\* was computed on (a rejected call leaves the caller's state as it was).
C16_NoStaleProbabilities ==
    [][/\ (call'.op = "OracleState.apply_action" /\ raised' = None)
           => os'.probabilities = None
       /\ (os' # None /\ os' # os /\ os'.probabilities # None)
           => /\ call'.op = "OracleState.compute_probabilities"
              /\ raised' = None
              /\ os'.game = os.game
              /\ os'.constraints = os.constraints
              /\ os'.probabilities
                     = auto_marginals(os.constraints, call'.arg[1], call'.arg[2])
    ]_vars

\* C16 witness: compute_probabilities has returned a state with a table, on
\* which a further action is accepted and gives a state without a table.
C16_Witness ==
    /\ os # None
    /\ call.op = "OracleState.compute_probabilities"
    /\ raised = None
    /\ os.probabilities # None
    /\ Len(os.game.history) = 1
    /\ \E action \in InputActions :
           /\ ~IsError(OracleState_apply_action(os, action))
           /\ OracleState_apply_action(os, action).probabilities = None

\* a/b + c/d
FracAdd(x, y) == Frac(x[1] * y[2] + y[1] * x[2], x[2] * y[2])

\* the sum of f[lo], ..., f[hi]
RECURSIVE FracSum(_, _, _)
FracSum(f, lo, hi) ==
    IF lo > hi THEN <<0, 1>> ELSE FracAdd(f[lo], FracSum(f, lo + 1, hi))

\* pt is a table, not an error and not the absence of a call
IsTable(r) == r # None /\ ~IsError(r)

C18_ZeroOutsideCandidates ==
    (cs # None /\ IsTable(pt)) =>
        \A pi \in 0..2 : \A ti \in 0..(Len(pt.tiles) - 1) :
            LET pc == cs.player_constraints[OPPONENTS[pi + 1]]
                tile == pt.tiles[ti + 1]
            IN  /\ tile \notin pc.candidate_tiles => pt.probs[pi][ti] = <<0, 1>>
                /\ (\E v \in pc.eliminated_values : v \in {tile[1], tile[2]})
                       => pt.probs[pi][ti] = <<0, 1>>

\* C18 witness: exact enumeration returned a table for a constraint set in
\* which WEST has passed on 0, and some other opponent has a nonzero entry
\* for the unknown tile 0-0 that WEST's entry rules out.
C18_Witness ==
    /\ cs # None /\ IsTable(pt)
    /\ call.op = "exact_marginals"
    /\ 0 \in cs.player_constraints[C_WEST].eliminated_values
    /\ pt.tiles[1] = <<0, 0>>
    /\ pt.probs[0][0] = <<0, 1>>
    /\ pt.probs[1][0] # <<0, 1>>


\* the assignments of the unknown tiles (by index) to the opponents (by
\* index) that the constraints allow: each opponent receives exactly its
\* remaining count of tiles, all of them among its candidates
ValidAssignments(constraints) ==
    LET unknown_list == sorted(ConstraintSet_unknown_tiles(constraints))
        n_tiles      == Len(unknown_list)
        remaining    == remaining_of(constraints, OPPONENTS)
        candidates   == candidate_indices_of(constraints, OPPONENTS, unknown_list)
    IN  {f \in [0..(n_tiles - 1) -> 0..2] :
            \A pi \in 0..2 :
                /\ {ti \in 0..(n_tiles - 1) : f[ti] = pi} \subseteq candidates[pi]
                /\ Cardinality({ti \in 0..(n_tiles - 1) : f[ti] = pi}) = remaining[pi]}

\* the orders in which the three opponents can be processed
ProcessingOrders == {o \in [1..3 -> 0..2] : \A i, j \in 1..3 : o[i] = o[j] => i = j}

\* the assignments the enumeration accepts when it processes the opponents in
\* the given order, each (set_0, set_1, leftover) read as an assignment
AcceptedInOrder(constraints, order) ==
    LET unknown_list == sorted(ConstraintSet_unknown_tiles(constraints))
        n_tiles      == Len(unknown_list)
        remaining    == remaining_of(constraints, OPPONENTS)
        candidates   == candidate_indices_of(constraints, OPPONENTS, unknown_list)
        accepted     == exact_accepted([k \in 0..2 |-> remaining[order[k + 1]]],
                                       [k \in 0..2 |-> candidates[order[k + 1]]],
                                       n_tiles)
    IN  {[ti \in 0..(n_tiles - 1) |-> order[CHOOSE k \in 1..3 : ti \in cfg[k]]] :
            cfg \in accepted}

HasValidAssignment(constraints) ==
    LET unknown_list == sorted(ConstraintSet_unknown_tiles(constraints))
        n_tiles      == Len(unknown_list)
        remaining    == remaining_of(constraints, OPPONENTS)
        candidates   == candidate_indices_of(constraints, OPPONENTS, unknown_list)
        Total(group) == LET in(pi) == IF pi \in group THEN remaining[pi] ELSE 0
                        IN  in(0) + in(1) + in(2)
    IN  /\ \A pi \in 0..2 : remaining[pi] >= 0
        /\ Total(0..2) = n_tiles
        /\ \A group \in SUBSET (0..2) :
               Cardinality({ti \in 0..(n_tiles - 1) :
                               \A pi \in 0..2 : ti \in candidates[pi] => pi \in group})
                   <= Total(group)

\* HasValidAssignment agrees with the enumeration of the valid assignments
\* wherever the latter is small enough to enumerate
HasValidAssignmentIsExact ==
    (cs # None /\ Cardinality(ConstraintSet_unknown_tiles(cs)) <= MaxEnumerated) =>
        (HasValidAssignment(cs) <=> ValidAssignments(cs) # {})

NoValidConfiguration ==
    Raise("ValueError",
          "No valid configurations found; constraints may be inconsistent")

TooManyUnknowns == Raise("ValueError", "Too many unknown tiles")

\* C21: auto_marginals returns what exact enumeration returns when at most 15
\* tiles are unknown and what rejection sampling returns otherwise;
\* exact_marginals called directly fails with the too-many-unknown-tiles
\* error exactly when more than 18 tiles are unknown; so neither
\* auto_marginals nor compute_probabilities on a state holding the
\* constraint set fails with that error.
C21_DispatchAndCeiling ==
    LET n_unknown == Cardinality(ConstraintSet_unknown_tiles(cs)) IN
    /\ (cs # None /\ call.op = "auto_marginals") =>
           /\ pt = IF n_unknown <= 15
                   THEN exact_marginals(cs)
                   ELSE monte_carlo_marginals(cs, call.arg[2], call.arg[3])
           /\ pt # TooManyUnknowns
           /\ compute_probabilities(
                  OracleState(GameState_initial(cs.my_hand), cs, None),
                  call.arg[2], call.arg[3]) # TooManyUnknowns
    /\ (cs # None /\ call.op = "exact_marginals") =>
           (pt = TooManyUnknowns <=> n_unknown > 18)

\* C21 witness: on 16 unknown tiles, each opponent's candidates being its own
\* block, auto_marginals sampled with the reversed order, found no accepted
\* trial and failed, where exact enumeration finds the one configuration.
C21_Witness ==
    /\ cs # None
    /\ call.op = "auto_marginals"
    /\ Cardinality(ConstraintSet_unknown_tiles(cs)) = 16
    /\ pt = NoValidConfiguration
    /\ IsTable(exact_marginals(cs))


\* the tiles (by index) at the positions of `order` that fall to opponent pi
\* when the order is cut into consecutive slices of the remaining counts
SliceOf(order, remaining, pi) ==
    LET before == IF pi = 0 THEN 0
                  ELSE IF pi = 1 THEN remaining[0]
                  ELSE remaining[0] + remaining[1]
    IN  {order[k] : k \in (before + 1)..(before + remaining[pi]) \cap DOMAIN order}

\* a trial is acceptable: the three slices use up the order exactly and every
\* opponent's slice lies within its candidates
TrialAcceptable(constraints, order) ==
    LET unknown_list == sorted(ConstraintSet_unknown_tiles(constraints))
        remaining    == remaining_of(constraints, OPPONENTS)
        candidates   == candidate_indices_of(constraints, OPPONENTS, unknown_list)
    IN  /\ remaining[0] + remaining[1] + remaining[2] = Len(unknown_list)
        /\ \A pi \in 0..2 : SliceOf(order, remaining, pi) \subseteq candidates[pi]

C24_ReplayMatchesStepwise ==
    [][(os # None /\ call'.op = "replay_game") =>
          LET actions  == call'.arg[2]
              more     == SubSeq(actions, Len(os.game.history) + 1, Len(actions))
              stepwise == IF more = <<>> THEN os
                          ELSE OracleState_apply_action(os, more[1])
          IN  IF IsError(stepwise)
              THEN raised' = stepwise
              ELSE /\ raised' = None
                   /\ os'.game = stepwise.game
                   /\ os'.constraints = stepwise.constraints
                   /\ IsTable(os'.probabilities)]_vars


\* C25: from the observer hand SOUTH_HAND the four actions of EXAMPLE_ACTIONS
\* are all accepted by OracleState.apply_action, one after the other, and
\* give open ends (2, 3), played tiles {3-3, 3-6, 2-6}, remaining counts
\* (6, 7, 6, 6), SOUTH to move, 19 unknown tiles, 3 among WEST's eliminated
\* values and no tile bearing 3 among WEST's candidates.
C25_ExampleScenario ==
    /\ \A k \in 1..Len(EXAMPLE_ACTIONS) :
           ~ /\ os.game.history = SubSeq(EXAMPLE_ACTIONS, 1, k - 1)
             /\ call = [op |-> "OracleState.apply_action", arg |-> EXAMPLE_ACTIONS[k]]
             /\ raised # None
    /\ os.game.history = EXAMPLE_ACTIONS =>
           /\ os.game.open_ends = <<2, 3>>
           /\ os.game.played_tiles = {<<3, 3>>, <<3, 6>>, <<2, 6>>}
           /\ os.game.tiles_remaining = <<6, 7, 6, 6>>
           /\ os.game.current_player = SOUTH
           /\ Cardinality(ConstraintSet_unknown_tiles(os.constraints)) = 19
           /\ 3 \in os.constraints.player_constraints[C_WEST].eliminated_values
           /\ tiles_with_value(
                  os.constraints.player_constraints[C_WEST].candidate_tiles, 3) = {}


\* C26: the tile catalog holds exactly 28 distinct tiles, all the pairs with
\* 0 <= lo <= hi <= 6; the suit returned for a pip value 0..6 holds exactly
\* the 7 catalog tiles bearing that value; a double belongs to exactly one of
\* the suits returned (its own); and the seven suits together are the whole
\* catalog.
C26_CatalogAndSuits ==
    LET returned == {cache[i] : i \in DOMAIN cache} IN
    /\ Cardinality(generate_full_set) = 28
    /\ \A lo, hi \in 0..6 : lo <= hi => Tile(lo, hi) \in generate_full_set
    /\ \A t \in generate_full_set : 0 <= t[1] /\ t[1] <= t[2] /\ t[2] <= 6
    /\ (call.op = "suits" /\ call.arg \in 0..6) =>
           /\ raised = None
           /\ cache # <<>> /\ cache[Len(cache)].key = call.arg
    /\ \A e \in returned :
           /\ e.key \in 0..6
           /\ Cardinality(e.result) = 7
           /\ e.result = {t \in generate_full_set : t[1] = e.key \/ t[2] = e.key}
           /\ Tile(e.key, e.key) \in e.result
           /\ \A f \in returned : Tile(e.key, e.key) \in f.result => f.key = e.key
    /\ CachedKeys = 0..6 =>
           UNION {e.result : e \in returned} = generate_full_set

\* C26 witness: suits has been called for each of the seven pip values, last
\* of all for 3, and the seven suits are held.
C26_Witness ==
    /\ call = [op |-> "suits", arg |-> 3]
    /\ CachedKeys = 0..6
    /\ Len(cache) = 7
    /\ <<3, 3>> \in cache[7].result
    /\ <<2, 5>> \in cache[1].result


\* the constraint set allows the deal: every opponent's dealt tiles that are
\* not yet played are among its candidates, none of them bears a value
\* eliminated for that opponent, and some assignment of the unknown tiles
\* satisfies the constraints
AllowsDeal(constraints, dealt, played_tiles) ==
    /\ \A seat \in 1..3 :
           LET pc   == constraints.player_constraints[OPPONENTS[seat]]
               held == dealt[seat] \ played_tiles
           IN  /\ held \subseteq pc.candidate_tiles
               /\ \A t \in held : \A v \in pc.eliminated_values :
                      ~contains_value(t, v)
    /\ HasValidAssignment(constraints)

\* C27: in a game that follows a real deal (every player plays only tiles it
\* holds, an opponent passes only when it holds no tile bearing either open
\* end), every OracleState reached keeps each opponent's unplayed dealt
\* tiles among that opponent's candidates, eliminates for an opponent no
\* value borne by a tile it holds, and leaves at least one valid
\* configuration for exact enumeration to find.
C27_DealStaysPossible ==
    (deal # None /\ os.game = gs) =>
        AllowsDeal(os.constraints, deal, os.game.played_tiles)

\* the same of the ConstraintSet that received the actions with the members
\* of constraints.Player, where moreover the deal itself is a valid
\* configuration: every opponent's remaining count is the number of tiles it
\* holds
DealStaysPossibleDirect ==
    deal # None =>
        /\ AllowsDeal(cs, deal, gs.played_tiles)
        /\ \A seat \in 1..3 :
               cs.player_constraints[OPPONENTS[seat]].tiles_remaining
                   = Cardinality(deal[seat] \ gs.played_tiles)

\* a dealt game in which an opponent has passed and the ConstraintSet has
\* eliminated a value for it
DealtPassSeen ==
    /\ deal # None
    /\ \E seat \in 1..3 :
           cs.player_constraints[OPPONENTS[seat]].eliminated_values # {}


\* C28: propagate preserves the valid configurations: an assignment of the
\* unknown tiles to the opponents (each receiving exactly its remaining count,
\* all from its candidates) is valid for the constraint set propagate was
\* called on iff it is valid for the one it returned, and exact_marginals
\* returns the same for both (the same table, or the same error).
C28_PropagatePreservesConfigurations ==
    (cs # None /\ call.op = "ConstraintSet.propagate") =>
        /\ Cardinality(ConstraintSet_unknown_tiles(cs)) <= MaxEnumerated =>
               ValidAssignments(call.arg) = ValidAssignments(cs)
        /\ exact_marginals(call.arg) = exact_marginals(cs)
        /\ HasValidAssignment(call.arg) <=> HasValidAssignment(cs)

\* C28 witness: propagate has removed candidates from a constraint set over
\* three unknown tiles that has more than one valid configuration.
C28_Witness ==
    /\ cs # None
    /\ call.op = "ConstraintSet.propagate"
    /\ call.arg # cs
    /\ Cardinality(ConstraintSet_unknown_tiles(cs)) = 3
    /\ Cardinality(ValidAssignments(cs)) > 1
    /\ IsTable(exact_marginals(cs))


\* Rule 2 made to act, for the players from position i on: the unknown tiles
\* that are candidates of p alone are fixed to p, and when they fill p's
\* remaining count p loses its other candidates
RECURSIVE propagate_rule2(_, _, _)
propagate_rule2(st, i, unknown) ==
    IF i > Len(OPPONENTS) THEN st
    ELSE LET p     == OPPONENTS[i]
             fixed == {tile \in unknown :
                          {q \in Opponents : tile \in st.pc[q].candidate_tiles} = {p}}
         IN IF /\ Cardinality(fixed) = st.pc[p].tiles_remaining
               /\ st.pc[p].candidate_tiles # fixed
            THEN propagate_rule2(
                     [pc      |-> [st.pc EXCEPT ![p] = set_candidates(@, fixed)],
                      changed |-> TRUE],
                     i + 1, unknown)
            ELSE propagate_rule2(st, i + 1, unknown)

\* the loop of propagate with both rules acting, n iterations left
RECURSIVE propagate_loop_both(_, _, _)
propagate_loop_both(pc, n, unknown) ==
    IF n = 0 THEN pc
    ELSE LET st == propagate_rule2(
                       propagate_rule1([pc |-> pc, changed |-> FALSE], 1),
                       1, unknown)
         IN IF ~st.changed THEN st.pc
            ELSE propagate_loop_both(st.pc, n - 1, unknown)

\* a propagation that additionally acts on the unique-tile rule
propagate_with_unique_tile(self) ==
    ConstraintSet(
        propagate_loop_both(self.player_constraints, 50,
                            ConstraintSet_unknown_tiles(self)),
        self.played_tiles,
        self.my_hand)

\* C29 as stated: the result of propagate equals the result of a propagation
\* that additionally acts on the unique-tile rule, for every constraint set
\* with three opponents.
C29_UniqueTileRuleAddsNothing ==
    (cs # None /\ call.op = "ConstraintSet.propagate") =>
        cs = propagate_with_unique_tile(call.arg)

\* C29 amended: the propagation that also acts on the unique-tile rule can
\* remove candidates that propagate keeps; its candidate sets are within
\* those of propagate's result, everything else is equal, and the two
\* results have the same valid configurations and the same exact marginals.
\* On the chain scenario of the tests the two results are equal.
C29_UniqueTileRuleOnlyNarrows ==
    (cs # None /\ call.op = "ConstraintSet.propagate") =>
        LET both == propagate_with_unique_tile(call.arg) IN
        /\ \A p \in Opponents :
               /\ both.player_constraints[p].candidate_tiles
                      \subseteq cs.player_constraints[p].candidate_tiles
               /\ both.player_constraints[p].tiles_remaining
                      = cs.player_constraints[p].tiles_remaining
               /\ both.player_constraints[p].eliminated_values
                      = cs.player_constraints[p].eliminated_values
        /\ both.played_tiles = cs.played_tiles /\ both.my_hand = cs.my_hand
        /\ Cardinality(ConstraintSet_unknown_tiles(cs)) <= MaxEnumerated =>
               ValidAssignments(both) = ValidAssignments(cs)
        /\ exact_marginals(both) = exact_marginals(cs)
        /\ call.arg = ChainConstraintSet => both = cs

\* C29 witness: propagate has returned a constraint set with valid
\* configurations in which WEST keeps a candidate that the unique-tile rule
\* removes.
C29_Witness ==
    /\ cs # None
    /\ call.op = "ConstraintSet.propagate"
    /\ ValidAssignments(cs) # {}
    /\ cs.player_constraints[C_WEST].tiles_remaining = 1
    /\ propagate_with_unique_tile(call.arg).player_constraints[C_WEST].candidate_tiles
           # cs.player_constraints[C_WEST].candidate_tiles

\* The loop of propagate with its rounds counted: the candidate sets it ends
\* with, the number of rounds it ran, and whether it left through
\* "if not changed: break" rather than by exhausting range(max_iterations)
RECURSIVE propagate_exit(_, _, _)
propagate_exit(pc, n, rounds) ==
    IF n = 0 THEN [pc |-> pc, rounds |-> rounds, broke |-> FALSE]
    ELSE LET st == propagate_rule1([pc |-> pc, changed |-> FALSE], 1) IN
         IF ~st.changed
         THEN [pc |-> st.pc, rounds |-> rounds + 1, broke |-> TRUE]
         ELSE propagate_exit(st.pc, n - 1, rounds + 1)

\* C30: propagate terminates at a fixed point well before the 50-round cap:
\* on every constraint set the loop exits because a full round changed no
\* candidate set, after at most one round per opponent plus the unchanged
\* one, and propagating the result again changes nothing.
C30_PropagateReachesFixedPoint ==
    (cs # None /\ call.op = "ConstraintSet.propagate") =>
        LET exit == propagate_exit(call.arg.player_constraints, 50, 0) IN
        /\ exit.broke
        /\ exit.rounds <= Len(OPPONENTS) + 1
        /\ exit.pc = cs.player_constraints
        /\ propagate(cs) = cs
        /\ propagate_exit(cs.player_constraints, 50, 0).rounds = 1

\* C30 witness: propagate has returned from a call that needed two changing
\* rounds before the round that changed nothing.
C30_Witness ==
    /\ cs # None
    /\ call.op = "ConstraintSet.propagate"
    /\ cs # call.arg
    /\ propagate_exit(call.arg.player_constraints, 50, 0).rounds = 3
    /\ propagate_exit(call.arg.player_constraints, 50, 0).broke

KnowledgeGrows(earlier, later) ==
    \A p \in Opponents :
        /\ later.player_constraints[p].candidate_tiles
               \subseteq earlier.player_constraints[p].candidate_tiles
        /\ earlier.player_constraints[p].eliminated_values
               \subseteq later.player_constraints[p].eliminated_values
        /\ \A v \in later.player_constraints[p].eliminated_values :
               tiles_with_value(later.player_constraints[p].candidate_tiles, v) = {}

\* C32: knowledge is monotone over any sequence of accepted actions: across
\* every step each opponent's candidate set is a subset of its earlier one,
\* its eliminated-value set only grows, and no tile containing an eliminated
\* value is among its candidates; in the constraint set driven through
\* apply_play and apply_pass and in the one the OracleState carries.
C32_KnowledgeIsMonotone ==
    [][/\ KnowledgeGrows(cs, cs')
       /\ KnowledgeGrows(os.constraints, os'.constraints)]_vars

\* C32 witness: a game in which an opponent has passed and a tile has been
\* played afterwards, the passer's eliminated values being recorded and
\* its candidates narrowed below those of another opponent.
C32_Witness ==
    /\ deal # None
    /\ Len(gs.history) >= 2
    /\ gs.history[Len(gs.history)].type = "Play"
    /\ \E i \in 1..(Len(gs.history) - 1) :
           /\ gs.history[i].type = "Pass"
           /\ LET p == SeatOf(gs.history[i].player) IN
              /\ cs.player_constraints[p].eliminated_values # {}
              /\ \E q \in Opponents :
                     cs.player_constraints[p].candidate_tiles
                         # cs.player_constraints[q].candidate_tiles

\* C33: OracleState.apply_action routes passes asymmetrically.  For every
\* action the game state machine accepts: a Pass by the observer leaves the
\* constraint set exactly unchanged; a Pass by an opponent completes and
\* gives the constraint set apply_pass returns for the open ends of the state
\* before the action, in which both open ends are eliminated for that
\* opponent and the eliminated values of the other opponents are untouched;
\* a Play gives the constraint set apply_play returns for the played tile.
C33_PassRouting ==
    [][(/\ os # None
        /\ call'.op = "OracleState.apply_action"
        /\ ~IsError(GameState_apply_action(os.game, call'.arg))) =>
          LET action == call'.arg IN
          /\ raised' = None
          /\ os'.game = GameState_apply_action(os.game, action)
          /\ (action.type = "Pass" /\ action.player = SOUTH) =>
                 os'.constraints = os.constraints
          /\ (action.type = "Pass" /\ action.player # SOUTH) =>
                 /\ os'.constraints
                        = ConstraintSet_apply_pass(os.constraints, action.player,
                                                   os.game.open_ends)
                 /\ \A p \in Opponents :
                        os'.constraints.player_constraints[p].eliminated_values
                            = IF p.value = action.player.value
                              THEN os.constraints.player_constraints[p].eliminated_values
                                       \cup {os.game.open_ends[1], os.game.open_ends[2]}
                              ELSE os.constraints.player_constraints[p].eliminated_values
          /\ action.type = "Play" =>
                 os'.constraints
                     = ConstraintSet_apply_play(os.constraints, action.player,
                                                action.tile)
    ]_vars

\* the routing of C33 without its opponent-pass case: what apply_action does
\* whenever it completes
PassRoutingWhenCompleted ==
    [][(/\ os # None
        /\ call'.op = "OracleState.apply_action"
        /\ raised' = None) =>
          LET action == call'.arg IN
          /\ os'.game = GameState_apply_action(os.game, action)
          /\ action.type = "Pass" =>
                 action.player = SOUTH /\ os'.constraints = os.constraints
          /\ action.type = "Play" =>
                 os'.constraints
                     = ConstraintSet_apply_play(os.constraints, action.player,
                                                action.tile)
    ]_vars

\* an opponent's pass that the game state machine accepts has been refused
OpponentPassRefused ==
    /\ os # None
    /\ call.op = "OracleState.apply_action"
    /\ call.arg.type = "Pass"
    /\ call.arg.player # SOUTH
    /\ ~IsError(GameState_apply_action(os.game, call.arg))
    /\ raised = Raise("KeyError", call.arg.player.name)

\* C34: the seat carried by an action accepted by the game state machine
\* denotes the same seat in the constraint engine: apply_action on an
\* accepted Pass by WEST, NORTH or EAST raises no KeyError and records the
\* open ends as eliminated for that seat, an accepted Play by an opponent
\* decrements that seat's remaining count in the constraint set, and an
\* accepted Play by the observer removes the tile from the constraint set's
\* hand copy.
C34_SeatsAgree ==
    [][(/\ os # None
        /\ call'.op = "OracleState.apply_action"
        /\ ~IsError(GameState_apply_action(os.game, call'.arg))) =>
          LET action == call'.arg
              seat   == SeatOf(action.player)
          IN
          /\ raised' = None
          /\ (action.type = "Pass" /\ action.player # SOUTH) =>
                 {os.game.open_ends[1], os.game.open_ends[2]} \subseteq
                     os'.constraints.player_constraints[seat].eliminated_values
          /\ (action.type = "Play" /\ action.player # SOUTH) =>
                 os'.constraints.player_constraints[seat].tiles_remaining
                     = os.constraints.player_constraints[seat].tiles_remaining - 1
          /\ (action.type = "Play" /\ action.player = SOUTH) =>
                 action.tile \notin os'.constraints.my_hand
    ]_vars

\* the three ways the seats disagree, each reached: after an accepted Play by
\* the observer the tile is still in the constraint set's hand copy
ObserverPlayKeptInHandCopy ==
    /\ os # None
    /\ call.op = "OracleState.apply_action"
    /\ raised = None
    /\ call.arg.type = "Play"
    /\ call.arg.player = SOUTH
    /\ call.arg.tile \notin os.game.my_hand
    /\ call.arg.tile \in os.constraints.my_hand

\* after an accepted Play by an opponent the constraint set's remaining count
\* of that seat is above the game state's
OpponentPlayNotCounted ==
    /\ os # None
    /\ call.op = "OracleState.apply_action"
    /\ raised = None
    /\ call.arg.type = "Play"
    /\ call.arg.player # SOUTH
    /\ os.constraints.player_constraints[SeatOf(call.arg.player)].tiles_remaining
           > os.game.tiles_remaining[call.arg.player.value + 1]

\* C35: in every GameState reachable from GameState.initial by accepted
\* actions the observer's hand and the played-tile set are disjoint, so that
\* hand, played and unknown tiles partition the catalog; in particular an
\* opponent's Play of a tile that is in the observer's hand is not accepted.
C35_HandAndPlayedDisjoint ==
    gs # None =>
        /\ gs.my_hand \cap gs.played_tiles = {}
        /\ gs.my_hand \cap GameState_unknown_tiles(gs) = {}
        /\ gs.played_tiles \cap GameState_unknown_tiles(gs) = {}
        /\ (gs.my_hand \cup gs.played_tiles) \cup GameState_unknown_tiles(gs)
               = generate_full_set
        /\ (/\ call.op = "GameState.apply_action"
            /\ call.arg.type = "Play"
            /\ call.arg.player # SOUTH
            /\ call.arg.tile \in gs.my_hand) => raised # None

\* an opponent's Play of a tile of the observer's hand has been accepted
OpponentPlayedHandTile ==
    /\ gs # None
    /\ call.op = "GameState.apply_action"
    /\ raised = None
    /\ call.arg.type = "Play"
    /\ call.arg.player # SOUTH
    /\ call.arg.tile \in gs.my_hand
    /\ call.arg.tile \in gs.played_tiles
    /\ gs.history[Len(gs.history)] = call.arg

\* C36: in every reachable GameState the observer's seat count equals the
\* size of the observer's hand (which an accepted Play by the observer of a
\* tile outside its hand would break).
C36_ObserverCountIsHandSize ==
    gs # None =>
        gs.tiles_remaining[SOUTH.value + 1] = Cardinality(gs.my_hand)

\* a Play by the observer of a tile outside its hand has been accepted: the
\* seat count went down and the hand did not
ObserverPlayedForeignTile ==
    /\ gs # None
    /\ call.op = "GameState.apply_action"
    /\ raised = None
    /\ call.arg.type = "Play"
    /\ call.arg.player = SOUTH
    /\ gs.history = <<call.arg>>
    /\ Cardinality(gs.my_hand) = 7
    /\ gs.tiles_remaining[SOUTH.value + 1] = 6

\* the GameState a history prefix of n actions led to was over: a seat count
\* was 0 after it or its last four actions were passes
OverAfter(self, n) ==
    \/ /\ n >= 4
       /\ \A i \in (n - 3)..n : self.history[i].type = "Pass"
    \/ \E p \in Player :
           Cardinality({i \in 1..n : /\ self.history[i].type = "Play"
                                     /\ self.history[i].player = p}) = 7

\* C38: once is_game_over() is true in a reachable state, apply_action
\* accepts no further action (it raises and the state is kept), so the game
\* stays over in every later state.
C38_GameOverIsTerminal ==
    [][is_game_over(gs) =>
          /\ call'.op = "GameState.apply_action" => (raised' # None /\ gs' = gs)
          /\ is_game_over(gs')]_vars

\* an action has been accepted by a GameState whose game was over
AcceptedAfterGameOver ==
    /\ gs # None
    /\ call.op = "GameState.apply_action"
    /\ raised = None
    /\ Len(gs.history) >= 5
    /\ gs.history[Len(gs.history)] = call.arg
    /\ OverAfter(gs, Len(gs.history) - 1)

\* a game that was over is not over any more: it was over after an earlier
\* action, and now no count is 0 and the last four actions are not all
\* passes
GameOverUndone ==
    /\ gs # None
    /\ ~is_game_over(gs)
    /\ \E n \in 1..(Len(gs.history) - 1) : OverAfter(gs, n)

\* C37: in every reachable state each of the four seat remaining counts
\* stays within 0..7; no sequence of accepted actions drives a count below 0.
C37_CountsWithinBounds ==
    gs # None =>
        \A i \in 1..Len(gs.tiles_remaining) :
            gs.tiles_remaining[i] >= 0 /\ gs.tiles_remaining[i] <= 7

\* a seat's eighth Play has been accepted and its count is below 0
SeatCountBelowZero ==
    /\ gs # None
    /\ call.op = "GameState.apply_action"
    /\ raised = None
    /\ call.arg.type = "Play"
    /\ gs.tiles_remaining[call.arg.player.value + 1] = 0 - 1
    /\ Cardinality({i \in 1..Len(gs.history) :
                        /\ gs.history[i].type = "Play"
                        /\ gs.history[i].player = call.arg.player}) = 8

\* the positions of the Play actions in a history
PlaysIn(history) == {i \in 1..Len(history) : history[i].type = "Play"}

\* C39: in every reachable GameState the four remaining counts plus the
\* number of played tiles sum to 28, the number of played tiles equals the
\* number of Play actions in history, and no tile is played by two different
\* Play actions in history.
C39_TileAccounting ==
    gs # None =>
        /\ gs.tiles_remaining[1] + gs.tiles_remaining[2] + gs.tiles_remaining[3]
               + gs.tiles_remaining[4] + Cardinality(gs.played_tiles) = 28
        /\ Cardinality(gs.played_tiles) = Cardinality(PlaysIn(gs.history))
        /\ gs.played_tiles = {gs.history[i].tile : i \in PlaysIn(gs.history)}
        /\ \A i, j \in PlaysIn(gs.history) :
               gs.history[i].tile = gs.history[j].tile => i = j

\* C39 witness: a game with two Plays and a Pass in its history on which a
\* third Play, of a tile already played, has just been rejected.
C39_Witness ==
    /\ gs # None
    /\ Cardinality(PlaysIn(gs.history)) = 2
    /\ Len(gs.history) = 3
    /\ call.op = "GameState.apply_action"
    /\ call.arg.type = "Play"
    /\ call.arg.player = gs.current_player
    /\ call.arg.tile \in gs.played_tiles
    /\ raised = Raise("ValueError", "Tile has already been played")

\* what C40 says of one GameState: open_ends is undefined exactly when the
\* history is empty, and the first action of a non-empty history is a Play
\* by the observer
OpensWithObserverPlay(self) ==
    /\ (self.open_ends = None) <=> (self.history = <<>>)
    /\ self.history # <<>> =>
           /\ self.history[1].type = "Play"
           /\ self.history[1].player = SOUTH

\* C40: the first accepted action of every game is a Play by the observer,
\* and from then on open_ends is defined in every later state (it is
\* undefined exactly when history is empty), so an opponent's Pass that the
\* game state machine accepts always finds a pre-action open-end pair:
\* apply_action never fails its open-ends assertion.
C40_OpenEndsDefinedAfterFirstPlay ==
    /\ [](os # None => OpensWithObserverPlay(os.game))
    /\ [][(os # None /\ call'.op = "OracleState.apply_action") =>
             /\ os.game.open_ends # None => os'.game.open_ends # None
             /\ (/\ call'.arg.type = "Pass"
                 /\ call'.arg.player # SOUTH
                 /\ ~IsError(GameState_apply_action(os.game, call'.arg)))
                    => os.game.open_ends # None
             /\ raised' # None => raised'.exception # "AssertionError"
          ]_vars

\* C40 witness: after the observer's opening Play an opponent's Pass that
\* the game state machine accepts has been given to apply_action, the open
\* ends of the state before it being defined.
C40_Witness ==
    /\ os # None
    /\ Len(os.game.history) = 1
    /\ os.game.history[1].type = "Play"
    /\ os.game.open_ends # None
    /\ call.op = "OracleState.apply_action"
    /\ call.arg = Pass(WEST)
    /\ ~IsError(GameState_apply_action(os.game, call.arg))
    /\ raised # None
    /\ raised.exception # "AssertionError"

====
